---------------------------- MODULE Spec2Model ----------------------------
(***************************************************************************)
(* Model of the json-stat2 decoder of housing-prices-fi:                   *)
(* DatasetTransformer.transform() and its helpers buildDimensionLookup,    *)
(* computeStrides, computeIndex and getValue.                              *)
(*                                                                         *)
(* Conventions.  Positions and flat offsets are 0-based as in the code;    *)
(* TLA+ sequences are 1-based, so a JS access a[i] reads a[i + 1] here.    *)
(* A JS number is a fixed-point integer counting 1/Scale units, wrapped    *)
(* in a one-element tuple <<q>>; JS null is the empty tuple.  A JS object  *)
(* is a function whose DOMAIN is the set of its own keys.                  *)
(***************************************************************************)
EXTENDS Integers, Sequences, FiniteSets, TLC

\* ---------------------------------------------------------------- bounds
\* Largest number of categories of the period, area and category dimensions.
MaxYears == 2
MaxAreas == 2
MaxTypes == 2
\* Largest number of (period, area, category) combinations of a table.
MaxTriples == 8
\* Resolution of the number model: a number q stands for q / Scale.
Scale == 4
\* Largest number of storeTransformResult / insertPriceRecords calls.
MaxStores == 2
\* Largest length of a URL handed to the dataset source.
MaxUrlLen == 5
\* Largest number of categories of a dimension beyond the four roles.
MaxExtra == 2

\* ------------------------------------------------------------- constants
METRIC_PRICE == "keskihinta_aritm_nw"
METRIC_COUNT == "lkm_julk20"
\* A metric the decoder does not track.
METRIC_OTHER == "keskihinta_aritm"

DIM_YEAR == "Vuosi"
DIM_POSTAL == "Postinumero"
DIM_TYPE == "Talotyyppi"
DIM_METRIC == "Tiedot"

Roles == {DIM_YEAR, DIM_POSTAL, DIM_TYPE, DIM_METRIC}

\* ------------------------------------------------------------ JS values
Null == <<>>
Num(q) == <<q>>

\* Math.round: the nearest integer, a tie going up (floor(x + 1/2)).
MathRound(v) == Num((((2 * v[1]) + Scale) \div (2 * Scale)) * Scale)

\* Array.prototype.indexOf: the first 0-based position of x, -1 when absent.
IndexOf(seq, x) ==
    IF \E i \in 1..Len(seq) : seq[i] = x
    THEN (CHOOSE i \in 1..Len(seq) :
             seq[i] = x /\ \A j \in 1..(i - 1) : seq[j] # x) - 1
    ELSE -1

\* String(idx): the decimal string of a flat offset.
String(idx) == ToString(idx)

\* Truthiness of a string-valued property read obj[key]: a missing key reads
\* undefined, and undefined and the empty string are both falsy.
Truthy(obj, key) == key \in DOMAIN obj /\ obj[key] # ""

\* -------------------------------------------------- the payload's layout
\* Product of sizes[from..to].
RECURSIVE Prod(_, _, _)
Prod(sizes, from, to) ==
    IF from > to THEN 1 ELSE sizes[from] * Prod(sizes, from + 1, to)

\* The row-major position of a combination, as json-stat2 lays the flat array
\* out: i_dim0 * size[1]*...*size[n] + i_dim1 * size[2]*...*size[n] + ... + i_dimN.
\* coords maps each dimension id to its category position.
RowMajor(ids, sizes, coords) ==
    LET RECURSIVE Sum(_)
        Sum(i) == IF i > Len(ids) THEN 0
                  ELSE coords[ids[i]] * Prod(sizes, i + 1, Len(sizes)) + Sum(i + 1)
    IN Sum(1)

\* The combination stored at a flat position (the inverse of RowMajor).
CoordsAt(ids, sizes, o) ==
    [d \in {ids[i] : i \in 1..Len(ids)} |->
        LET i == IndexOf(ids, d) + 1
        IN (o \div Prod(sizes, i + 1, Len(sizes))) % sizes[i]]

\* ------------------------------------------------------- the transformer
\* Mutant: the lookup is a table fixed in the transformer, whatever mapping
\* list the caller passes.
BuildTypeMapHardcoded(mappings) ==
    [code \in {"1", "2", "3", "5"} |->
        IF code = "1" THEN "apartment_1r" ELSE IF code = "2" THEN "apartment_2r"
        ELSE IF code = "3" THEN "apartment_3r_plus" ELSE "terraced"]

\* new Map(buildingTypeMappings.map((m) => [m.sourceCode, m.canonicalCode])):
\* a later entry for the same source code replaces an earlier one.
BuildTypeMap(mappings) ==
    [code \in {mappings[i].sourceCode : i \in 1..Len(mappings)} |->
        LET last == CHOOSE i \in 1..Len(mappings) :
                        /\ mappings[i].sourceCode = code
                        /\ \A j \in (i + 1)..Len(mappings) : mappings[j].sourceCode # code
        IN mappings[last].canonicalCode]

\* Mutant: the entries are left in key order (the sort is forgotten).
SortByPositionUnsorted(entries) == entries

\* Object.entries(indexMap).sort(([, a], [, b]) => a - b): a stable sort of the
\* <<code, position>> entries by position, entries given in key order.
RECURSIVE SortByPosition(_)
SortByPosition(entries) ==
    IF entries = <<>> THEN <<>>
    ELSE LET n == Len(entries)
             e == entries[n]
             sorted == SortByPosition(SubSeq(entries, 1, n - 1))
             k == Cardinality({i \in 1..Len(sorted) : sorted[i][2] <= e[2]})
         IN SubSeq(sorted, 1, k) \o <<e>> \o SubSeq(sorted, k + 1, Len(sorted))

\* dim?.category?.index is not undefined: the dimension object exists, has a
\* category, and the category has an index.
HasCategoryIndex(dimensionObj, dimId) ==
    /\ dimId \in DOMAIN dimensionObj
    /\ "category" \in DOMAIN dimensionObj[dimId]
    /\ "index" \in DOMAIN dimensionObj[dimId].category

\* For each dimension id, its category codes ordered by position. An index
\* object is given as its <<code, position>> entries in key order.
buildDimensionLookup(dimensionObj, dimensionIds) ==
    [i \in 1..Len(dimensionIds) |->
        LET entries == SortByPosition(dimensionObj[dimensionIds[i]].category.index)
        IN [k \in 1..Len(entries) |-> entries[k][1]]]

\* Mutant: each stride multiplies by the dimension's own size, not the next's.
computeStridesOwnSize(sizes) ==
    LET RECURSIVE At(_)
        At(i) == IF i = Len(sizes) THEN 1 ELSE At(i + 1) * sizes[i]
    IN [i \in 1..Len(sizes) |-> At(i)]

\* strides[last] = 1; strides[i] = strides[i + 1] * sizes[i + 1].
computeStrides(sizes) ==
    LET RECURSIVE At(_)
        At(i) == IF i = Len(sizes) THEN 1 ELSE At(i + 1) * sizes[i + 1]
    IN [i \in 1..Len(sizes) |-> At(i)]

\* Mutant: the d-th index is weighted by the d-th stride, taking the roles to
\* be declared in the order period, area, category, metric.
computeIndexByPosition(indices, dimPositions, strides, numDims) ==
    LET RECURSIVE Sum(_)
        Sum(d) == IF d > Len(dimPositions) THEN 0
                  ELSE indices[d] * strides[d] + Sum(d + 1)
    IN Sum(1)

\* Mutant: a dimension that is none of dimPositions is taken at its second
\* category instead of its first.
computeIndexOthersAtOne(indices, dimPositions, strides, numDims) ==
    LET RECURSIVE Sum(_)
        Sum(d) == IF d > Len(dimPositions) THEN 0
                  ELSE indices[d] * strides[dimPositions[d] + 1] + Sum(d + 1)
        others == {k \in 1..numDims : \A d \in 1..Len(dimPositions) : dimPositions[d] + 1 # k}
        RECURSIVE Others(_)
        Others(k) == IF k > numDims THEN 0
                     ELSE (IF k \in others THEN strides[k] ELSE 0) + Others(k + 1)
    IN Sum(1) + Others(1)

\* flatIndex = sum over d of indices[d] * strides[dimPositions[d]].
computeIndex(indices, dimPositions, strides, numDims) ==
    LET RECURSIVE Sum(_)
        Sum(d) == IF d > Len(dimPositions) THEN 0
                  ELSE indices[d] * strides[dimPositions[d] + 1] + Sum(d + 1)
    IN Sum(1)

\* The value at baseIndex + metricOffset * metricStride, null when the status
\* map flags that offset or the array holds null or nothing there.
getValue(values, baseIndex, metricOffset, metricStride, statusMap) ==
    LET idx == baseIndex + metricOffset * metricStride
        statusKey == String(idx)
    IN IF Truthy(statusMap, statusKey) THEN Null
       ELSE IF idx \in DOMAIN values /\ values[idx] # Null THEN values[idx]
       ELSE Null

\* Mutant: the text has no Z and is read as local time (here two hours east
\* of UTC), another instant.
DateOfYearLocal(year) == year \o "-01-01T00:00:00+02:00"

\* new Date(`${year}-01-01T00:00:00Z`), named by the instant's ISO text.
DateOfYear(year) == year \o "-01-01T00:00:00Z"

yearDimIdx(dimensionIds) == IndexOf(dimensionIds, DIM_YEAR)
postalDimIdx(dimensionIds) == IndexOf(dimensionIds, DIM_POSTAL)
typeDimIdx(dimensionIds) == IndexOf(dimensionIds, DIM_TYPE)
metricDimIdx(dimensionIds) == IndexOf(dimensionIds, DIM_METRIC)

\* Mutant: either metric missing counts as none found.
AnyMetricMissing(priceMetricIdx, countMetricIdx) ==
    priceMetricIdx = -1 \/ countMetricIdx = -1

\* Mutant: the positions are tested as booleans (!priceMetricIdx && ...), so
\* the test asks for position 0 instead of -1.
NoMetricFoundFalsy(priceMetricIdx, countMetricIdx) ==
    priceMetricIdx = 0 /\ countMetricIdx = 0

\* priceMetricIdx === -1 && countMetricIdx === -1
NoMetricFound(priceMetricIdx, countMetricIdx) ==
    priceMetricIdx = -1 /\ countMetricIdx = -1

\* Mutant: either value null counts as no data.
AnyValueNull(priceValue, countValue) ==
    priceValue = Null \/ countValue = Null

\* priceValue === null && countValue === null
NoData(priceValue, countValue) ==
    priceValue = Null /\ countValue = Null

\* One pass of the innermost loop body for the triple (y, p, t): what it does
\* to records and skipped.
LoopBody(js, dims, strd, typeMap, source, y, p, t) ==
    LET dimensionIds == js.id
        yearCodes == dims[yearDimIdx(dimensionIds) + 1]
        postalCodes == dims[postalDimIdx(dimensionIds) + 1]
        typeCodes == dims[typeDimIdx(dimensionIds) + 1]
        metricCodes == dims[metricDimIdx(dimensionIds) + 1]
        priceMetricIdx == IndexOf(metricCodes, METRIC_PRICE)
        countMetricIdx == IndexOf(metricCodes, METRIC_COUNT)
        typeCode == typeCodes[t + 1]
        baseIndex == computeIndex(<<y, p, t, 0>>,
                                  <<yearDimIdx(dimensionIds), postalDimIdx(dimensionIds),
                                    typeDimIdx(dimensionIds), metricDimIdx(dimensionIds)>>,
                                  strd, Len(dimensionIds))
        metricStride == strd[metricDimIdx(dimensionIds) + 1]
        priceValue == IF priceMetricIdx # -1
                      THEN getValue(js.value, baseIndex, priceMetricIdx, metricStride, js.status)
                      ELSE Null
        countValue == IF countMetricIdx # -1
                      THEN getValue(js.value, baseIndex, countMetricIdx, metricStride, js.status)
                      ELSE Null
    IN IF ~Truthy(typeMap, typeCode) THEN [kind |-> "unknownType"]
       ELSE IF NoData(priceValue, countValue) THEN [kind |-> "noData"]
       ELSE [kind |-> "record",
             record |-> [postalCode |-> postalCodes[p + 1],
                         buildingType |-> typeMap[typeCode],
                         date |-> DateOfYear(yearCodes[y + 1]),
                         pricePerSqm |-> priceValue,
                         transactionCount |->
                             IF countValue # Null THEN MathRound(countValue) ELSE Null,
                         sourceName |-> source]]

\* The whole traversal as a function of its inputs: <<records, skipped>> after
\* the three nested loops, period outermost, category innermost.
Traverse(js, dims, strd, typeMap, source) ==
    LET dimensionIds == js.id
        nY == Len(dims[yearDimIdx(dimensionIds) + 1])
        nP == Len(dims[postalDimIdx(dimensionIds) + 1])
        nT == Len(dims[typeDimIdx(dimensionIds) + 1])
        RECURSIVE Run(_, _, _, _)
        Run(k, y, p, t) ==
            \* k passes left; (y, p, t) is the triple of the next pass
            IF k = 0 THEN <<<<>>, 0>>
            ELSE LET out == LoopBody(js, dims, strd, typeMap, source, y, p, t)
                     rest == IF t + 1 < nT THEN Run(k - 1, y, p, t + 1)
                             ELSE IF p + 1 < nP THEN Run(k - 1, y, p + 1, 0)
                             ELSE Run(k - 1, y + 1, 0, 0)
                 IN IF out.kind = "record"
                    THEN <<<<out.record>> \o rest[1], rest[2]>>
                    ELSE <<rest[1], rest[2] + 1>>
    IN Run(nY * nP * nT, 0, 0, 0)

\* transform() of a payload that passes the schema checks, as a function.
Decode(js, mappings, source) ==
    Traverse(js, buildDimensionLookup(js.dimension, js.id), computeStrides(js.size),
             BuildTypeMap(mappings), source)

\* ------------------------------------------------------------ the inputs
\* Category codes of the period, area and category dimensions, by position.
YearCode(i) == ToString(2023 + i)
PostalCode(i) == "00" \o ToString(i + 1) \o "00"
TypeCode(i) == ToString(i + 1)

STATFIN_BUILDING_TYPE_MAPPINGS ==
    << [sourceCode |-> "1", sourceLabel |-> "Blocks of flats, one-room flat",
        canonicalCode |-> "apartment_1r"],
       [sourceCode |-> "2", sourceLabel |-> "Blocks of flats, two-room flat",
        canonicalCode |-> "apartment_2r"],
       [sourceCode |-> "3", sourceLabel |-> "Blocks of flats, three-room flat+",
        canonicalCode |-> "apartment_3r_plus"],
       [sourceCode |-> "5", sourceLabel |-> "Terraced houses total",
        canonicalCode |-> "terraced"] >>

\* The mapping tables a caller passes: the Statistics Finland table with the
\* entries of some category codes left out, and the empty table.
MappingsWithout(codes) ==
    LET Keep(m) == m.sourceCode \notin codes
    IN SelectSeq(STATFIN_BUILDING_TYPE_MAPPINGS, Keep)

\* The metric dimensions a table may publish.
MetricLists ==
    { <<METRIC_PRICE, METRIC_COUNT>>, <<METRIC_COUNT, METRIC_PRICE>>,
      <<METRIC_OTHER, METRIC_PRICE>>, <<METRIC_COUNT>>, <<METRIC_OTHER>> }

\* How a payload may be serialized: the order in which it declares its
\* dimensions, and whether the keys of each category.index come in position
\* order or in reverse.
Layouts ==
    { [ids |-> <<DIM_YEAR, DIM_POSTAL, DIM_TYPE, DIM_METRIC>>, keysReversed |-> FALSE],
      [ids |-> <<DIM_METRIC, DIM_TYPE, DIM_POSTAL, DIM_YEAR>>, keysReversed |-> TRUE],
      [ids |-> <<DIM_POSTAL, DIM_METRIC, DIM_YEAR, DIM_TYPE>>, keysReversed |-> FALSE],
      [ids |-> <<DIM_TYPE, DIM_YEAR, DIM_METRIC, DIM_POSTAL>>, keysReversed |-> TRUE] }

\* Every order in which the four dimensions can be declared.
IdPermutations ==
    {ids \in [1..4 -> Roles] : \A i \in 1..4, j \in 1..4 : i # j => ids[i] # ids[j]}

\* Every declaration order, the index keys in position order.
AnyOrderLayouts == {[ids |-> ids, keysReversed |-> FALSE] : ids \in IdPermutations}

\* What one cell of the table holds: a number, a null, nothing (a sparse or
\* short value array), a number flagged by a status code, a number with an
\* empty status code.
CellStates == {"number", "null", "missing", "flagged", "emptyFlag"}

\* The (price, count) states of the special triple in the any-order inputs.
SomeCellStates ==
    { <<"number", "number">>, <<"flagged", "number">>,
      <<"null", "missing">>, <<"emptyFlag", "flagged">> }

MetricNo(code) == IF code = METRIC_PRICE THEN 0 ELSE IF code = METRIC_COUNT THEN 1 ELSE 2

\* The number published for a combination: different for every combination,
\* with whole, quarter, half and three-quarter fractions, and 0 for the first.
Published(coords, metricCode) ==
    Num(3 * ((((coords[DIM_YEAR] * MaxAreas + coords[DIM_POSTAL]) * MaxTypes
               + coords[DIM_TYPE]) * 3) + MetricNo(metricCode)))

\* The json-stat2 document of a table: n gives each dimension's number of
\* categories, keysReversed the key order of every category.index, and the
\* cells of the triple `special` hold priceState and countState.
JsonStat2(ids, n, metricCodes, keysReversed, special, priceState, countState) ==
    LET sizes == [i \in 1..Len(ids) |-> n[ids[i]]]
        total == Prod(sizes, 1, Len(sizes))
        Code(d, i) == IF d = DIM_YEAR THEN YearCode(i)
                      ELSE IF d = DIM_POSTAL THEN PostalCode(i)
                      ELSE IF d = DIM_TYPE THEN TypeCode(i)
                      ELSE metricCodes[i + 1]
        Index(d) == [k \in 1..n[d] |->
                        LET pos == IF keysReversed THEN n[d] - k ELSE k - 1
                        IN <<Code(d, pos), pos>>]
        MetricAt(o) == metricCodes[CoordsAt(ids, sizes, o)[DIM_METRIC] + 1]
        StateAt(o) ==
            LET c == CoordsAt(ids, sizes, o)
            IN IF \E d \in {DIM_YEAR, DIM_POSTAL, DIM_TYPE} : c[d] # special[d]
               THEN "number"
               ELSE IF MetricAt(o) = METRIC_PRICE THEN priceState
               ELSE IF MetricAt(o) = METRIC_COUNT THEN countState
               ELSE "number"
        flagged == {o \in 0..(total - 1) : StateAt(o) \in {"flagged", "emptyFlag"}}
    IN [class |-> "dataset",
        id |-> ids,
        size |-> sizes,
        dimension |-> [d \in Roles |-> [category |-> [index |-> Index(d)]]],
        value |-> [o \in {o \in 0..(total - 1) : StateAt(o) # "missing"} |->
                      IF StateAt(o) = "null" THEN Null
                      ELSE Published(CoordsAt(ids, sizes, o), MetricAt(o))],
        status |-> [key \in {String(o) : o \in flagged} |->
                       LET o == CHOOSE o \in flagged : String(o) = key
                       IN IF StateAt(o) = "flagged" THEN "..." ELSE ""]]

\* ------------------------------------------------------------- the state
VARIABLES
    jsonStat,               \* JSON.parse(this.rawDataset.data)
    sourceName,             \* this.sourceName
    buildingTypeMappings,   \* this.buildingTypeMappings
    buildingTypeMap,        \* this.buildingTypeMap
    pc,                     \* where transform() is: start, loop, done, failed
    dimensions,             \* transform's local dimensions
    strides,                \* transform's local strides
    yi, pi, ti,             \* the loop counters
    records, skipped,       \* transform's locals records and skipped
    outcome                 \* what transform() returned or threw

\* What lies outside the transformer.
VARIABLES
    data_source,            \* the rows of table data_source
    postal_code,            \* the rows of table postal_code
    building_type_mapping,  \* the rows of table building_type_mapping
    price_data,             \* the rows of table price_data
    serial,                 \* the last value of each SERIAL sequence
    now,                    \* the database clock read by NOW()
    store,                  \* where a storeTransformResult() call is
    peer,                   \* a second DatasetTransformer and its transform()
    main                    \* the script that runs: its main() and what it holds

database == <<data_source, postal_code, building_type_mapping, price_data, serial, now>>

outside == <<database, store, peer, main>>

vars == <<jsonStat, sourceName, buildingTypeMappings, buildingTypeMap, pc,
          dimensions, strides, yi, pi, ti, records, skipped, outcome, outside>>

inputs == <<jsonStat, sourceName, buildingTypeMappings, buildingTypeMap>>

\* schema.sql as created, and no storeTransformResult() call under way.
DatabaseCreated ==
    /\ data_source = {}
    /\ postal_code = {}
    /\ building_type_mapping = {}
    /\ price_data = {}
    /\ serial = [data_source |-> 0, building_type_mapping |-> 0, price_data |-> 0]
    /\ now = 0
    /\ store = [pc |-> "idle", calls |-> 0, last |-> [kind |-> "none"]]

\* No transformer has been constructed.
NoTransformer ==
    /\ jsonStat = <<>>
    /\ sourceName = ""
    /\ buildingTypeMappings = <<>>
    /\ buildingTypeMap = <<>>
    /\ pc = "none"
    /\ dimensions = <<>>
    /\ strides = <<>>
    /\ yi = 0 /\ pi = 0 /\ ti = 0
    /\ records = <<>>
    /\ skipped = 0
    /\ outcome = [kind |-> "pending"]

\* No script runs: the transformer and the database client are driven by
\* their callers directly.
NoScript == [script |-> "none"]

\* The database as created, no second transformer, no script.
OutsideIdle ==
    /\ DatabaseCreated
    /\ peer = [pc |-> "none"]
    /\ main = NoScript

\* The state after new DatasetTransformer(rawDataset, datasetName, mappings),
\* for the payloads serialized as one of layouts, whose special triple is the
\* last (or the first) one and holds one of cellStates.
Constructed(layouts, lasts, cellStates) ==
    \E layout \in layouts, nY \in 1..MaxYears, nP \in 1..MaxAreas, nT \in 1..MaxTypes,
       metricCodes \in MetricLists, atLast \in lasts, cells \in cellStates :
      \E unmapped \in SUBSET {TypeCode(i) : i \in 0..(nT - 1)} :
        LET n == [d \in Roles |->
                    IF d = DIM_YEAR THEN nY ELSE IF d = DIM_POSTAL THEN nP
                    ELSE IF d = DIM_TYPE THEN nT ELSE Len(metricCodes)]
            special == [d \in {DIM_YEAR, DIM_POSTAL, DIM_TYPE} |->
                          IF atLast THEN n[d] - 1 ELSE 0]
        IN /\ nY * nP * nT <= MaxTriples
           /\ jsonStat = JsonStat2(layout.ids, n, metricCodes, layout.keysReversed,
                                   special, cells[1], cells[2])
           /\ sourceName = "statfin_ashi_pxt_13mu"
           /\ buildingTypeMappings = MappingsWithout(unmapped)
           /\ buildingTypeMap = BuildTypeMap(MappingsWithout(unmapped))
           /\ pc = "start"
           /\ dimensions = <<>>
           /\ strides = <<>>
           /\ yi = 0 /\ pi = 0 /\ ti = 0
           /\ records = <<>>
           /\ skipped = 0
           /\ outcome = [kind |-> "pending"]

Init == Constructed(Layouts, BOOLEAN, CellStates \X CellStates) /\ OutsideIdle

\* Payloads declared in every order, with fewer cell contents.
InitAnyOrder == Constructed(AnyOrderLayouts, {TRUE}, SomeCellStates) /\ OutsideIdle

\* ---- payloads that break the schema, empty tables, other callers
\* The document without its class member.
WithoutClass(js) == [f \in (DOMAIN js) \ {"class"} |-> js[f]]

\* The document without the dimension d: no entry in id and size, and no
\* member of dimension.
WithoutRole(js, d) ==
    LET Keep(i) == {k \in 1..Len(js.id) : js.id[k] # d /\ k <= i}
        kept == {k \in 1..Len(js.id) : js.id[k] # d}
        At(i) == CHOOSE k \in kept : Cardinality(Keep(k)) = i
    IN [js EXCEPT
          !.id = [i \in 1..Cardinality(kept) |-> js.id[At(i)]],
          !.size = [i \in 1..Cardinality(kept) |-> js.size[At(i)]],
          !.dimension = [e \in (DOMAIN js.dimension) \ {d} |-> js.dimension[e]]]

\* The document whose dimension d is declared in id and size but has no
\* member of dimension.
WithoutIndex(js, d) ==
    [js EXCEPT !.dimension = [e \in (DOMAIN js.dimension) \ {d} |-> js.dimension[e]]]

\* No dimension.
NoDim == "-"

\* The ways a payload may break the schema: its class (undefined: absent), a
\* required role it does not declare, a dimension without a category index.
Malformations ==
    {[class |-> c, noRole |-> r, noIndex |-> NoDim] :
        c \in {"dataset", "collection", "undefined"}, r \in Roles \cup {NoDim}}
    \cup {[class |-> "dataset", noRole |-> NoDim, noIndex |-> x] : x \in Roles}
    \cup {[class |-> "collection", noRole |-> NoDim, noIndex |-> DIM_YEAR],
          [class |-> "dataset", noRole |-> DIM_METRIC, noIndex |-> DIM_POSTAL],
          [class |-> "dataset", noRole |-> DIM_YEAR, noIndex |-> DIM_TYPE]}

Malformed(js, m) ==
    LET a == IF m.noRole = NoDim THEN js ELSE WithoutRole(js, m.noRole)
        b == IF m.noIndex = NoDim THEN a ELSE WithoutIndex(a, m.noIndex)
    IN IF m.class = "undefined" THEN WithoutClass(b)
       ELSE [b EXCEPT !.class = m.class]

\* The metric dimensions of these payloads: also one without categories.
SchemaMetricLists == MetricLists \cup {<<>>}

\* The (price, count) cells of the last triple: numbers, cut off the end of
\* the value array, or a flagged price and a null count.
SchemaCellStates ==
    { <<"number", "number">>, <<"missing", "missing">>, <<"flagged", "null">> }

\* The mapping tables: the Statistics Finland one, the same without its
\* first entry, and an empty one.
SchemaMappings ==
    { STATFIN_BUILDING_TYPE_MAPPINGS, MappingsWithout({"1"}), <<>> }

SourceNames == {"statfin_ashi_pxt_13mu", "test_source"}

\* The state after new DatasetTransformer(rawDataset, datasetName, mappings).
NewTransformer(js, datasetName, mappings) ==
    /\ jsonStat = js
    /\ sourceName = datasetName
    /\ buildingTypeMappings = mappings
    /\ buildingTypeMap = BuildTypeMap(mappings)
    /\ pc = "start"
    /\ dimensions = <<>>
    /\ strides = <<>>
    /\ yi = 0 /\ pi = 0 /\ ti = 0
    /\ records = <<>>
    /\ skipped = 0
    /\ outcome = [kind |-> "pending"]

\* The dimension sizes n of a table as a function of the role.
SizesOf(nY, nP, nT, metricCodes) ==
    [d \in Roles |-> IF d = DIM_YEAR THEN nY ELSE IF d = DIM_POSTAL THEN nP
                     ELSE IF d = DIM_TYPE THEN nT ELSE Len(metricCodes)]

\* Transformers of payloads that may break the schema or be empty, declared
\* period, area, category, metric.
InitSchema ==
    /\ \E nY \in 0..MaxYears, nP \in 0..MaxAreas, nT \in 0..MaxTypes,
          metricCodes \in SchemaMetricLists, cells \in SchemaCellStates,
          mappings \in SchemaMappings, datasetName \in SourceNames,
          m \in Malformations :
         LET n == SizesOf(nY, nP, nT, metricCodes)
             special == [d \in {DIM_YEAR, DIM_POSTAL, DIM_TYPE} |-> n[d] - 1]
         IN /\ nY * nP * nT <= MaxTriples
            /\ NewTransformer(
                  Malformed(JsonStat2(<<DIM_YEAR, DIM_POSTAL, DIM_TYPE, DIM_METRIC>>, n,
                                      metricCodes, FALSE, special, cells[1], cells[2]), m),
                  datasetName, mappings)
    /\ OutsideIdle

\* What the payload gives for a declared dimension: an object with
\* category.index, no member of dimension at all, an object without a
\* category, a category without an index.
Shapes == {"index", "noDimension", "noCategory", "noIndex"}

\* The document whose dimensions are cut down to the given shapes.
Shaped(js, shape) ==
    [js EXCEPT !.dimension =
        [d \in {e \in DOMAIN js.dimension : shape[e] # "noDimension"} |->
            IF shape[d] = "index" THEN js.dimension[d]
            ELSE IF shape[d] = "noIndex" THEN [category |-> <<>>]
            ELSE <<>>]]

\* The document without its dimension member.
WithoutDimensions(js) == [f \in (DOMAIN js) \ {"dimension"} |-> js[f]]

\* Transformers of payloads whose dimensions have any of the shapes or that
\* have no dimension member at all, in two declaration orders, of class
\* dataset or not, with and without categories; the sound ones also with a
\* flagged price or an unmapped first category.
InitIndex ==
    /\ \E nY \in 0..MaxYears, nT \in 0..MaxTypes,
          metricCodes \in {<<METRIC_PRICE, METRIC_COUNT>>, <<>>},
          ids \in {<<DIM_YEAR, DIM_POSTAL, DIM_TYPE, DIM_METRIC>>,
                   <<DIM_METRIC, DIM_TYPE, DIM_POSTAL, DIM_YEAR>>},
          class \in {"dataset", "collection"},
          shape \in [Roles -> Shapes], member \in BOOLEAN,
          price \in {"number", "flagged"}, unmapped \in {{}, {"1"}} :
         LET n == SizesOf(nY, 1, nT, metricCodes)
             special == [d \in {DIM_YEAR, DIM_POSTAL, DIM_TYPE} |-> 0]
             js == JsonStat2(ids, n, metricCodes, FALSE, special, price, "null")
             doc == Shaped([js EXCEPT !.class = class], shape)
         IN /\ nY * nT <= MaxTriples
            /\ ~member => \A d \in Roles : shape[d] = "index"
            /\ (price = "flagged" \/ unmapped # {}) =>
                  (member /\ class = "dataset" /\ \A d \in Roles : shape[d] = "index")
            /\ NewTransformer(IF member THEN doc ELSE WithoutDimensions(doc),
                              "statfin_ashi_pxt_13mu", MappingsWithout(unmapped))
    /\ OutsideIdle

\* The document with the size declared for dimension d changed by delta, the
\* category indexes and the value array left as they are.
Resized(js, d, delta) ==
    [js EXCEPT !.size = [i \in 1..Len(js.size) |->
                            IF js.id[i] = d THEN js.size[i] + delta ELSE js.size[i]]]

\* Transformers of datasets whose size list agrees with the category indexes
\* or declares one category more or fewer for one dimension.
InitSizes ==
    /\ \E layout \in {l \in Layouts : l.ids[1] \in {DIM_YEAR, DIM_METRIC}},
          nY \in 0..MaxYears, nP \in 1..MaxAreas, nT \in 1..MaxTypes,
          metricCodes \in {<<METRIC_PRICE, METRIC_COUNT>>},
          cells \in {<<"flagged", "null">>},
          unmapped \in {{}, {"1"}},
          d \in Roles \cup {NoDim}, delta \in {-1, 1} :
         LET n == SizesOf(nY, nP, nT, metricCodes)
             special == [e \in {DIM_YEAR, DIM_POSTAL, DIM_TYPE} |-> 0]
             js == JsonStat2(layout.ids, n, metricCodes, layout.keysReversed,
                             special, cells[1], cells[2])
         IN /\ nY * nP * nT <= MaxTriples
            /\ d # NoDim => n[d] + delta >= 0
            /\ NewTransformer(Resized(js, d, delta), "statfin_ashi_pxt_13mu",
                              MappingsWithout(unmapped))
    /\ OutsideIdle

yearCodes == dimensions[yearDimIdx(jsonStat.id) + 1]
postalCodes == dimensions[postalDimIdx(jsonStat.id) + 1]
typeCodes == dimensions[typeDimIdx(jsonStat.id) + 1]

\* The loop conditions: a pass of the innermost body is due at (yi, pi, ti).
InLoop == pc = "loop" /\ yi < Len(yearCodes) /\ pi < Len(postalCodes) /\ ti < Len(typeCodes)

\* The pass due at (yi, pi, ti).
Pass == LoopBody(jsonStat, dimensions, strides, buildingTypeMap, sourceName, yi, pi, ti)

\* Mutant: only the innermost counter is stepped, as if the two enclosing
\* loops were not there.
AdvanceInnermost == ti' = ti + 1 /\ UNCHANGED <<yi, pi>>

\* ti++, and the enclosing loops' pi++ and yi++ when an inner loop ends.
Advance ==
    IF ti + 1 < Len(typeCodes) THEN /\ ti' = ti + 1 /\ UNCHANGED <<yi, pi>>
    ELSE IF pi + 1 < Len(postalCodes) THEN /\ ti' = 0 /\ pi' = pi + 1 /\ UNCHANGED yi
    ELSE /\ ti' = 0 /\ pi' = 0 /\ yi' = yi + 1

Throw(message) ==
    /\ pc' = "failed"
    /\ outcome' = [kind |-> "thrown", message |-> message]
    /\ UNCHANGED <<dimensions, strides, yi, pi, ti, records, skipped>>

\* Mutant: only a class that is present and different is refused.
ClassMismatchIfPresent(js) == "class" \in DOMAIN js /\ js.class # "dataset"

\* jsonStat.class !== 'dataset': also true of a payload without a class.
ClassMismatch(js) == "class" \notin DOMAIN js \/ js.class # "dataset"

\* `${jsonStat.class}`: an absent class prints as undefined.
ClassText(js) == IF "class" \in DOMAIN js THEN js.class ELSE "undefined"

\* Mutant: an index without entries counts as missing, the way an empty
\* collection is falsy in other languages.
MissingCategoryIndexOrEmpty(dimensionObj, dimensionIds) ==
    {i \in 1..Len(dimensionIds) :
        \/ ~HasCategoryIndex(dimensionObj, dimensionIds[i])
        \/ dimensionObj[dimensionIds[i]].category.index = <<>>}

\* The declared dimensions for which !dim?.category?.index holds (an index
\* object without entries is truthy).
MissingCategoryIndex(dimensionObj, dimensionIds) ==
    {i \in 1..Len(dimensionIds) : ~HasCategoryIndex(dimensionObj, dimensionIds[i])}

\* Mutant: every dimension is looked at before the error is raised, and the
\* last one found without an index is reported.
LastMissingCategoryIndex(dimensionObj, dimensionIds) ==
    LET noIndex == MissingCategoryIndex(dimensionObj, dimensionIds)
    IN dimensionIds[CHOOSE i \in noIndex : \A j \in noIndex : j <= i]

\* The dimId at which dimensionIds.map(...) throws: the callback runs in the
\* order of dimensionIds, so the first dimension without an index.
FirstMissingCategoryIndex(dimensionObj, dimensionIds) ==
    LET noIndex == MissingCategoryIndex(dimensionObj, dimensionIds)
    IN dimensionIds[CHOOSE i \in noIndex : \A j \in noIndex : i <= j]

\* Mutant: a result is started without emptying records and skipped.
StartLoopsStale(dims) ==
    /\ pc' = "loop"
    /\ dimensions' = dims
    /\ strides' = computeStrides(jsonStat.size)
    /\ UNCHANGED <<records, skipped>>
    /\ yi' = 0 /\ pi' = 0 /\ ti' = 0
    /\ UNCHANGED outcome

\* const strides = ...; const records = []; let skipped = 0; the loop
\* counters start at 0.
StartLoops(dims) ==
    /\ pc' = "loop"
    /\ dimensions' = dims
    /\ strides' = computeStrides(jsonStat.size)
    /\ records' = <<>>
    /\ skipped' = 0
    /\ yi' = 0 /\ pi' = 0 /\ ti' = 0
    /\ UNCHANGED outcome

\* transform() up to its loops: parse, validate, look the dimensions up, find
\* the metrics, compute the strides.
Prepare ==
    /\ pc = "start"
    /\ UNCHANGED inputs
    /\ UNCHANGED outside
    /\ IF ClassMismatch(jsonStat)
       THEN Throw([error |-> "Unexpected json-stat2 class", class |-> ClassText(jsonStat)])
       ELSE LET dimensionIds == jsonStat.id
                noIndex == MissingCategoryIndex(jsonStat.dimension, dimensionIds)
                dims == buildDimensionLookup(jsonStat.dimension, dimensionIds)
            IN IF "dimension" \notin DOMAIN jsonStat /\ dimensionIds # <<>>
               THEN \* dimensionObj[dimId] of an undefined dimensionObj
                    Throw([error |-> "TypeError", reading |-> dimensionIds[1]])
               ELSE IF "dimension" \in DOMAIN jsonStat /\ noIndex # {}
               THEN Throw([error |-> "Dimension missing category index",
                           dimension |-> FirstMissingCategoryIndex(jsonStat.dimension,
                                                                   dimensionIds)])
               ELSE IF -1 \in {yearDimIdx(dimensionIds), postalDimIdx(dimensionIds),
                               typeDimIdx(dimensionIds), metricDimIdx(dimensionIds)}
               THEN Throw([error |-> "Missing expected dimension(s)", found |-> dimensionIds])
               ELSE LET metricCodes == dims[metricDimIdx(dimensionIds) + 1]
                    IN IF NoMetricFound(IndexOf(metricCodes, METRIC_PRICE),
                                        IndexOf(metricCodes, METRIC_COUNT))
                       THEN Throw([error |-> "Neither price nor count metric found",
                                   available |-> metricCodes])
                       ELSE StartLoops(dims)

\* A pass whose category code has no canonical code: skipped++, continue.
SkipUnknownType ==
    /\ InLoop
    /\ Pass.kind = "unknownType"
    /\ skipped' = skipped + 1
    /\ Advance
    /\ UNCHANGED outside
    /\ UNCHANGED <<inputs, pc, dimensions, strides, records, outcome>>

\* Mutant: a cell without data is dropped without being counted.
SkipNoDataUncounted ==
    /\ InLoop
    /\ Pass.kind = "noData"
    /\ Advance
    /\ UNCHANGED outside
    /\ UNCHANGED <<inputs, pc, dimensions, strides, records, skipped, outcome>>

\* Mutant: a cell without data is a fatal error.
SkipNoDataThrows ==
    /\ InLoop
    /\ Pass.kind = "noData"
    /\ UNCHANGED inputs
    /\ UNCHANGED outside
    /\ Throw([error |-> "No data", cell |-> <<yi, pi, ti>>])

\* A pass whose two metric values are both null: skipped++, continue.
SkipNoData ==
    /\ InLoop
    /\ Pass.kind = "noData"
    /\ skipped' = skipped + 1
    /\ Advance
    /\ UNCHANGED outside
    /\ UNCHANGED <<inputs, pc, dimensions, strides, records, outcome>>

\* A pass that pushes a record.
PushRecord ==
    /\ InLoop
    /\ Pass.kind = "record"
    /\ records' = Append(records, Pass.record)
    /\ Advance
    /\ UNCHANGED outside
    /\ UNCHANGED <<inputs, pc, dimensions, strides, skipped, outcome>>

\* Mutant: the result lists only the mappings that were applied, those whose
\* source code is a category of the table.
ReturnAppliedMappings ==
    /\ pc = "loop"
    /\ ~InLoop
    /\ pc' = "done"
    /\ outcome' = [kind |-> "returned",
                   result |-> [records |-> records,
                               skipped |-> skipped,
                               sourceName |-> sourceName,
                               buildingTypeMappings |->
                                   LET Applied(m) ==
                                         \E t \in 1..Len(typeCodes) : typeCodes[t] = m.sourceCode
                                   IN SelectSeq(buildingTypeMappings, Applied)]]
    /\ UNCHANGED outside
    /\ UNCHANGED <<inputs, dimensions, strides, yi, pi, ti, records, skipped>>

\* The loops are over: transform() returns its result.
Return ==
    /\ pc = "loop"
    /\ ~InLoop
    /\ pc' = "done"
    /\ outcome' = [kind |-> "returned",
                   result |-> [records |-> records,
                               skipped |-> skipped,
                               sourceName |-> sourceName,
                               buildingTypeMappings |-> buildingTypeMappings]]
    /\ UNCHANGED outside
    /\ UNCHANGED <<inputs, dimensions, strides, yi, pi, ti, records, skipped>>

Next == Prepare \/ SkipUnknownType \/ SkipNoData \/ PushRecord \/ Return

\* transform() is called once more on the same transformer, after it returned
\* or threw: the object's fields are what they were, the caller still holds
\* the earlier outcome, and the locals of the new call are yet to be set.
TransformAgain ==
    /\ pc \in {"done", "failed"}
    /\ pc' = "start"
    /\ UNCHANGED outside
    /\ UNCHANGED <<inputs, dimensions, strides, yi, pi, ti, records, skipped, outcome>>

NextTwice == Next \/ TransformAgain

Spec == Init /\ [][Next]_vars

SpecAnyOrder == InitAnyOrder /\ [][Next]_vars

SpecSchema == InitSchema /\ [][Next]_vars

\* Transformers whose transform() may be called again and again.
SpecTwice == InitSchema /\ [][NextTwice]_vars

\* transform() is a synchronous call: once started it runs to its return or
\* its throw, so a step that can be taken is taken.
SpecSchemaFair == InitSchema /\ [][Next]_vars /\ WF_vars(Next)

\* Transformers of payloads with dimensions of every shape.
SpecIndex == InitIndex /\ [][Next]_vars

\* Transformers of datasets whose declared sizes may disagree with their
\* category indexes; the call runs to its end as in SpecSchemaFair.
SpecSizes == InitSizes /\ [][Next]_vars /\ WF_vars(Next)

\* ------------------------------------------------- two transformers
\* The transformer whose call is running, as one value: its fields and the
\* locals of its transform().
Running ==
    [jsonStat |-> jsonStat, sourceName |-> sourceName,
     buildingTypeMappings |-> buildingTypeMappings, buildingTypeMap |-> buildingTypeMap,
     pc |-> pc, dimensions |-> dimensions, strides |-> strides,
     yi |-> yi, pi |-> pi, ti |-> ti,
     records |-> records, skipped |-> skipped, outcome |-> outcome]

\* Mutant: records and skipped are kept in one place for all transformers
\* (module-level variables), so the other call continues with the same ones.
SwitchSharedRecords ==
    /\ peer.pc # "none"
    /\ peer' = [Running EXCEPT !.records = peer.records, !.skipped = peer.skipped]
    /\ jsonStat' = peer.jsonStat
    /\ sourceName' = peer.sourceName
    /\ buildingTypeMappings' = peer.buildingTypeMappings
    /\ buildingTypeMap' = peer.buildingTypeMap
    /\ pc' = peer.pc
    /\ dimensions' = peer.dimensions
    /\ strides' = peer.strides
    /\ yi' = peer.yi /\ pi' = peer.pi /\ ti' = peer.ti
    /\ UNCHANGED <<records, skipped>>
    /\ outcome' = peer.outcome
    /\ UNCHANGED <<database, store, main>>

\* The scheduler suspends the running call and resumes the other one: each
\* transformer keeps its own fields, and each call its own locals.
Switch ==
    /\ peer.pc # "none"
    /\ peer' = Running
    /\ jsonStat' = peer.jsonStat
    /\ sourceName' = peer.sourceName
    /\ buildingTypeMappings' = peer.buildingTypeMappings
    /\ buildingTypeMap' = peer.buildingTypeMap
    /\ pc' = peer.pc
    /\ dimensions' = peer.dimensions
    /\ strides' = peer.strides
    /\ yi' = peer.yi /\ pi' = peer.pi /\ ti' = peer.ti
    /\ records' = peer.records
    /\ skipped' = peer.skipped
    /\ outcome' = peer.outcome
    /\ UNCHANGED <<database, store, main>>

NextConcurrent == Next \/ Switch

\* The state of a transformer just constructed.
NewPeer(js, datasetName, mappings) ==
    [jsonStat |-> js, sourceName |-> datasetName,
     buildingTypeMappings |-> mappings, buildingTypeMap |-> BuildTypeMap(mappings),
     pc |-> "start", dimensions |-> <<>>, strides |-> <<>>,
     yi |-> 0, pi |-> 0, ti |-> 0,
     records |-> <<>>, skipped |-> 0, outcome |-> [kind |-> "pending"]]

\* Two transformers of different tables: one declared period first, for
\* the production source, the other declared metric first with reversed
\* index keys, for another source, given the same mapping list or its own.
InitConcurrent ==
    /\ \E nY \in 1..MaxYears, nT \in 1..MaxTypes,
          cells \in {<<"number", "number">>, <<"flagged", "null">>},
          unmapped \in {{}, {"1"}}, own \in BOOLEAN :
         LET n == SizesOf(nY, 1, nT, <<METRIC_PRICE, METRIC_COUNT>>)
             m == SizesOf(1, MaxAreas, nT, <<METRIC_COUNT, METRIC_PRICE>>)
             first == [d \in {DIM_YEAR, DIM_POSTAL, DIM_TYPE} |-> 0]
         IN /\ NewTransformer(
                  JsonStat2(<<DIM_YEAR, DIM_POSTAL, DIM_TYPE, DIM_METRIC>>, n,
                            <<METRIC_PRICE, METRIC_COUNT>>, FALSE, first, cells[1], cells[2]),
                  "statfin_ashi_pxt_13mu", MappingsWithout(unmapped))
            /\ peer = NewPeer(
                  JsonStat2(<<DIM_METRIC, DIM_TYPE, DIM_POSTAL, DIM_YEAR>>, m,
                            <<METRIC_COUNT, METRIC_PRICE>>, TRUE, first, "null", "number"),
                  "test_source",
                  IF own THEN MappingsWithout({"2"}) ELSE MappingsWithout(unmapped))
    /\ DatabaseCreated
    /\ main = NoScript

SpecConcurrent == InitConcurrent /\ [][NextConcurrent]_vars

\* ------------------------------------------------------ the database
\* The transformer's own state, which no database operation touches.
transformer == <<inputs, pc, dimensions, strides, yi, pi, ti, records, skipped, outcome>>

\* The codes seeded into table building_type.
BuildingTypes == {"all", "apartment_1r", "apartment_2r", "apartment_3r_plus", "terraced"}

\* r.date.toISOString().slice(0, 10): the date part of the instant's ISO text.
IsoDate(date) ==
    LET year == CHOOSE y \in {YearCode(i) : i \in 0..MaxYears} : DateOfYear(y) = date
    IN year \o "-01-01"

\* Mutant: the constraint leaves the building type out, UNIQUE(postal_code,
\* date, source_id).
PriceKeyWithoutType(row) == <<row.postal_code, row.date, row.source_id>>

\* The columns of UNIQUE(postal_code, building_type, date, source_id).
PriceKey(row) == <<row.postal_code, row.building_type, row.date, row.source_id>>

\* The row that the VALUES list of insertPriceRecords describes. The model's
\* numbers have at most two decimals, which NUMERIC(10,2) keeps as they are.
PriceRow(id, r, sourceId) ==
    [id |-> id,
     postal_code |-> r.postalCode,
     building_type |-> r.buildingType,
     date |-> IsoDate(r.date),
     price_per_sqm |-> r.pricePerSqm,
     transaction_count |-> r.transactionCount,
     source_id |-> sourceId]

\* The references of price_data to postal_code, building_type, data_source.
ForeignKeysHold(row) ==
    /\ \E c \in postal_code : c.code = row.postal_code
    /\ row.building_type \in BuildingTypes
    /\ \E d \in data_source : d.id = row.source_id

\* Mutant: a plain INSERT into a table without the UNIQUE constraint: every
\* statement adds a row.
InsertPriceData(rows, new) == rows \cup {new}

\* INSERT INTO price_data ... ON CONFLICT (postal_code, building_type, date,
\* source_id) DO UPDATE SET price_per_sqm = EXCLUDED.price_per_sqm,
\* transaction_count = EXCLUDED.transaction_count.
UpsertPriceData(rows, new) ==
    IF \E row \in rows : PriceKey(row) = PriceKey(new)
    THEN {IF PriceKey(row) = PriceKey(new)
          THEN [row EXCEPT !.price_per_sqm = new.price_per_sqm,
                           !.transaction_count = new.transaction_count]
          ELSE row : row \in rows}
    ELSE rows \cup {new}

\* The same records as a later publication of the table reports them, with
\* other metric values: every price changed, a missing price now given.
Revised(result) ==
    [result EXCEPT !.records =
        [i \in 1..Len(result.records) |->
            [result.records[i] EXCEPT !.pricePerSqm =
                IF @ = Null THEN Num(Scale) ELSE Num(@[1] + Scale)]]]

\* The result of decoding the same table for another source.
Renamed(result) ==
    [result EXCEPT !.sourceName = "test_source",
                   !.records = [i \in 1..Len(result.records) |->
                                   [result.records[i] EXCEPT !.sourceName = "test_source"]]]

\* The results a caller may store after a decode.
ResultsToStore(result) == {result, Revised(result), Renamed(result)}

\* The number of calls made so far.
Calls == store.calls

\* The state between two calls.
Idle(calls, last) == [pc |-> "idle", calls |-> calls, last |-> last]

\* storeTransformResult(result) is called with the decoder's result, with a
\* later revision of it, or with the result for another source.
StoreTransformResult ==
    /\ store.pc = "idle"
    /\ outcome.kind = "returned"
    /\ Calls < MaxStores
    /\ \E result \in ResultsToStore(outcome.result) :
          store' = [pc |-> "ensureDataSource", calls |-> Calls, last |-> store.last,
                    method |-> "storeTransformResult", result |-> result]
    /\ UNCHANGED <<transformer, database, peer, main>>

\* ensureDataSource(name): INSERT INTO data_source ... ON CONFLICT (name) DO
\* UPDATE SET last_fetched = NOW() RETURNING id. The sequence advances also
\* when the insert meets a conflict.
EnsureDataSource ==
    /\ store.pc = "ensureDataSource"
    /\ LET name == store.result.sourceName
           exists == \E d \in data_source : d.name = name
           id == IF exists THEN (CHOOSE d \in data_source : d.name = name).id
                 ELSE serial.data_source + 1
       IN /\ data_source' =
                IF exists
                THEN {IF d.name = name THEN [d EXCEPT !.last_fetched = now + 1] ELSE d :
                         d \in data_source}
                ELSE data_source \cup {[id |-> id, name |-> name, description |-> Null,
                                        url |-> Null, last_fetched |-> now + 1]}
          /\ store' = [store EXCEPT !.pc = "ensurePostalCodes"] @@ [sourceId |-> id, k |-> 0]
    /\ now' = now + 1
    /\ serial' = [serial EXCEPT !.data_source = @ + 1]
    /\ UNCHANGED <<transformer, postal_code, building_type_mapping, price_data, peer, main>>

\* [...new Set(codes)]: the codes without repetitions, in the order of their
\* first occurrence.
UniqueCodes(codes) ==
    LET First(i) == \A j \in 1..(i - 1) : codes[j] # codes[i]
        RECURSIVE From(_)
        From(i) == IF i > Len(codes) THEN <<>>
                   ELSE IF First(i) THEN <<codes[i]>> \o From(i + 1)
                   ELSE From(i + 1)
    IN From(1)

\* Mutant: an upsert in the manner of the other statements, ON CONFLICT
\* (code) DO UPDATE SET name = EXCLUDED.name, municipality =
\* EXCLUDED.municipality, geometry = EXCLUDED.geometry: the columns that
\* the statement does not list are reset to their default, null.
ReplacePostalCode(rows, code) ==
    {row \in rows : row.code # code}
    \cup {[code |-> code, name |-> Null, municipality |-> Null, geometry |-> Null]}

\* INSERT INTO postal_code (code) VALUES (code) ON CONFLICT (code) DO
\* NOTHING: a new row has the other columns null.
InsertPostalCode(rows, code) ==
    IF \E row \in rows : row.code = code THEN rows
    ELSE rows \cup {[code |-> code, name |-> Null, municipality |-> Null,
                     geometry |-> Null]}

\* Mutant: only the first record's postal code is ensured.
FirstCodeToEnsure ==
    IF store.method = "ensurePostalCodes" THEN SubSeq(store.codes, 1, 1)
    ELSE [i \in 1..(IF store.result.records = <<>> THEN 0 ELSE 1) |->
             store.result.records[i].postalCode]

\* The codes that the running ensurePostalCodes call was given.
CodesToEnsure ==
    IF store.method = "ensurePostalCodes" THEN store.codes
    ELSE [i \in 1..Len(store.result.records) |-> store.result.records[i].postalCode]

\* ensurePostalCodes(result.records.map((r) => r.postalCode)): one statement
\* of its loop over the unique codes, or its return when none is left.
EnsurePostalCodes ==
    /\ store.pc = "ensurePostalCodes"
    /\ LET uniqueCodes == UniqueCodes(CodesToEnsure)
       IN IF store.k < Len(uniqueCodes)
          THEN /\ postal_code' = InsertPostalCode(postal_code, uniqueCodes[store.k + 1])
               /\ store' = [store EXCEPT !.k = @ + 1]
          ELSE /\ UNCHANGED postal_code
               /\ store' = IF store.method = "ensurePostalCodes"
                           THEN Idle(Calls + 1, store.last)
                           ELSE [store EXCEPT !.pc = "storeBuildingTypeMappings"]
    /\ UNCHANGED <<transformer, data_source, building_type_mapping, price_data,
                   serial, now, peer, main>>

\* storeBuildingTypeMappings(sourceId, result.buildingTypeMappings): for each
\* mapping INSERT INTO building_type_mapping ... ON CONFLICT (source_id,
\* source_code) DO UPDATE SET source_label, building_type. A canonical code
\* that table building_type does not hold makes the database refuse the
\* statement: the await throws and storeTransformResult ends there, the
\* statements before it done. Otherwise insertPriceRecords is called; the
\* rows it finds are remembered as before.
StoreBuildingTypeMappings ==
    /\ store.pc = "storeBuildingTypeMappings"
    /\ LET mappings == store.result.buildingTypeMappings
           RECURSIVE Upsert(_, _, _)
           Upsert(rows, seq, i) ==
               IF i > Len(mappings) THEN <<rows, seq, FALSE>>
               ELSE LET m == mappings[i]
                        Hit(row) == row.source_id = store.sourceId
                                      /\ row.source_code = m.sourceCode
                    IN IF m.canonicalCode \notin BuildingTypes
                       THEN <<rows, seq + 1, TRUE>>
                       ELSE IF \E row \in rows : Hit(row)
                       THEN Upsert({IF Hit(row)
                                    THEN [row EXCEPT !.source_label = m.sourceLabel,
                                                     !.building_type = m.canonicalCode]
                                    ELSE row : row \in rows}, seq + 1, i + 1)
                       ELSE Upsert(rows \cup {[id |-> seq + 1,
                                               source_id |-> store.sourceId,
                                               source_code |-> m.sourceCode,
                                               source_label |-> m.sourceLabel,
                                               building_type |-> m.canonicalCode]},
                                   seq + 1, i + 1)
           done == Upsert(building_type_mapping, serial.building_type_mapping, 1)
       IN /\ building_type_mapping' = done[1]
          /\ serial' = [serial EXCEPT !.building_type_mapping = done[2]]
          /\ store' = IF done[3] THEN Idle(Calls + 1, [kind |-> "none"])
                      ELSE [store EXCEPT !.pc = "insertPriceRecords"]
                              @@ [i |-> 0, count |-> 0, before |-> price_data]
    /\ UNCHANGED <<transformer, data_source, postal_code, price_data, now, peer, main>>

\* insertPriceRecords(records, sourceId) is called on its own, with the
\* decoder's records and the id of a data source, known or not.
InsertPriceRecords ==
    /\ store.pc = "idle"
    /\ outcome.kind = "returned"
    /\ Calls < MaxStores
    /\ \E result \in ResultsToStore(outcome.result),
          sourceId \in {d.id : d \in data_source} \cup {serial.data_source + 1} :
          store' = [pc |-> "insertPriceRecords", calls |-> Calls, last |-> store.last,
                    method |-> "insertPriceRecords", result |-> result,
                    sourceId |-> sourceId, i |-> 0, count |-> 0, before |-> price_data]
    /\ UNCHANGED <<transformer, database, peer, main>>

\* The row the next statement of insertPriceRecords sends.
NextPriceRow ==
    PriceRow(serial.price_data + 1, store.result.records[store.i + 1], store.sourceId)

\* One statement of insertPriceRecords: the upsert of the next record.
InsertPriceRecord ==
    /\ store.pc = "insertPriceRecords"
    /\ store.i < Len(store.result.records)
    /\ ForeignKeysHold(NextPriceRow)
    /\ price_data' = UpsertPriceData(price_data, NextPriceRow)
    /\ serial' = [serial EXCEPT !.price_data = @ + 1]
    /\ store' = [store EXCEPT !.i = @ + 1, !.count = @ + 1]
    /\ UNCHANGED <<transformer, data_source, postal_code, building_type_mapping, now, peer, main>>

\* The statement violates a foreign key: the database refuses it, the await
\* throws and the call ends without touching the table.
InsertRejected ==
    /\ store.pc = "insertPriceRecords"
    /\ store.i < Len(store.result.records)
    /\ ~ForeignKeysHold(NextPriceRow)
    /\ serial' = [serial EXCEPT !.price_data = @ + 1]
    /\ store' = Idle(Calls + 1, [kind |-> "none"])
    /\ UNCHANGED <<transformer, data_source, postal_code, building_type_mapping,
                   price_data, now, peer, main>>

\* Every record was sent: insertPriceRecords returns count, and with it the
\* storeTransformResult call that made it. The call and the table it left
\* are remembered for the next one.
InsertReturn ==
    /\ store.pc = "insertPriceRecords"
    /\ store.i = Len(store.result.records)
    /\ store' = Idle(Calls + 1, [kind |-> "stored",
                                 records |-> store.result.records,
                                 sourceId |-> store.sourceId,
                                 recordsStored |-> store.count,
                                 table |-> price_data])
    /\ UNCHANGED <<transformer, database, peer, main>>

NextStore ==
    \/ Next
    \/ StoreTransformResult \/ EnsureDataSource \/ EnsurePostalCodes
    \/ StoreBuildingTypeMappings
    \/ InsertPriceRecords \/ InsertPriceRecord \/ InsertRejected \/ InsertReturn

\* The tables decoded and then stored: declared area, metric, period,
\* category, with every category mapped or the first one not.
InitStore ==
    /\ \E nY \in 1..MaxYears, nP \in 1..MaxAreas, nT \in {1, MaxTypes},
          metricCodes \in {<<METRIC_PRICE, METRIC_COUNT>>, <<METRIC_COUNT>>},
          cells \in {<<"number", "number">>, <<"flagged", "null">>},
          unmapped \in {{}, {"1"}} :
         LET n == SizesOf(nY, nP, nT, metricCodes)
             special == [d \in {DIM_YEAR, DIM_POSTAL, DIM_TYPE} |-> 0]
         IN /\ nY * nP * nT <= MaxTriples
            /\ NewTransformer(
                  JsonStat2(<<DIM_POSTAL, DIM_METRIC, DIM_YEAR, DIM_TYPE>>, n,
                            metricCodes, FALSE, special, cells[1], cells[2]),
                  "statfin_ashi_pxt_13mu", MappingsWithout(unmapped))
    /\ OutsideIdle

SpecStore == InitStore /\ [][NextStore]_vars

\* A mapping table that gives two category codes one canonical code.
MergedMappings ==
    [STATFIN_BUILDING_TYPE_MAPPINGS EXCEPT ![2].canonicalCode = "apartment_1r"]

\* A mapping table with a canonical code that table building_type lacks.
UnseededMappings ==
    [STATFIN_BUILDING_TYPE_MAPPINGS EXCEPT ![2].canonicalCode = "detached"]

\* Tables of MaxTypes categories decoded with the Statistics Finland table,
\* with a table that merges two categories, with one that lacks the first
\* or with one that names an unseeded building type, and then stored.
InitKeys ==
    /\ \E nY \in 1..MaxYears, nP \in 1..MaxAreas,
          mappings \in {STATFIN_BUILDING_TYPE_MAPPINGS, MergedMappings,
                        MappingsWithout({"1"}), UnseededMappings},
          cells \in {<<"number", "number">>, <<"flagged", "null">>} :
         LET metricCodes == <<METRIC_PRICE, METRIC_COUNT>>
             n == SizesOf(nY, nP, MaxTypes, metricCodes)
             special == [d \in {DIM_YEAR, DIM_POSTAL, DIM_TYPE} |-> 0]
         IN /\ nY * nP * MaxTypes <= MaxTriples
            /\ NewTransformer(
                  JsonStat2(<<DIM_POSTAL, DIM_METRIC, DIM_YEAR, DIM_TYPE>>, n,
                            metricCodes, FALSE, special, cells[1], cells[2]),
                  "statfin_ashi_pxt_13mu", mappings)
    /\ OutsideIdle

SpecKeys == InitKeys /\ [][NextStore]_vars

\* ---- payloads with dimensions beyond the four roles
\* Dimensions that the decoder has no role for.
DIM_EXTRA == "Huoneluku"
DIM_EXTRA2 == "Rahoitusmuoto"

\* What the cells of the further categories of an extra dimension hold.
ExtraFills == {"number", "null", "missing", "flagged"}

\* The extra dimensions among the declared ones.
ExtraIds(js) == {js.id[i] : i \in 1..Len(js.id)} \ Roles

\* The flat position o is for the first category of every extra dimension.
AtFirstCategories(js, o) ==
    \A e \in ExtraIds(js) : CoordsAt(js.id, js.size, o)[e] = 0

\* The table js published with one more dimension e of nE categories,
\* declared as the (at + 1)-th: the cells of its first category are those of
\* js, the cells of its other categories hold fill.
WithExtra(js, e, at, nE, fill) ==
    LET ids == SubSeq(js.id, 1, at) \o <<e>> \o SubSeq(js.id, at + 1, Len(js.id))
        sizes == SubSeq(js.size, 1, at) \o <<nE>> \o SubSeq(js.size, at + 1, Len(js.size))
        total == Prod(sizes, 1, Len(sizes))
        First(o) == CoordsAt(ids, sizes, o)[e] = 0
        Was(o) == RowMajor(js.id, js.size, CoordsAt(ids, sizes, o))
        cells == {o \in 0..(total - 1) :
                     IF First(o) THEN Was(o) \in DOMAIN js.value ELSE fill # "missing"}
        flagged == {o \in 0..(total - 1) :
                       IF First(o) THEN String(Was(o)) \in DOMAIN js.status
                       ELSE fill = "flagged"}
    IN [js EXCEPT
          !.id = ids,
          !.size = sizes,
          !.dimension = [d \in DOMAIN js.dimension \cup {e} |->
                            IF d = e
                            THEN [category |-> [index |->
                                    [k \in 1..nE |-> <<"e" \o ToString(k), k - 1>>]]]
                            ELSE js.dimension[d]],
          !.value = [o \in cells |->
                        IF First(o) THEN js.value[Was(o)]
                        ELSE IF fill = "null" THEN Null ELSE Num(2)],
          !.status = [key \in {String(o) : o \in flagged} |->
                        LET o == CHOOSE o \in flagged : String(o) = key
                        IN IF First(o) THEN js.status[String(Was(o))] ELSE "..."]]

\* Transformers of tables with one or two extra dimensions of up to MaxExtra
\* categories, declared anywhere among the four roles.
InitExtra ==
    /\ \E layout \in {l \in Layouts : l.ids[1] \in {DIM_YEAR, DIM_METRIC}},
          nY \in 1..MaxYears, nP \in {1}, nT \in 1..MaxTypes,
          cells \in {<<"number", "number">>, <<"flagged", "null">>},
          unmapped \in {{}, {"1"}},
          at \in 0..4, nE \in 1..MaxExtra, fill \in ExtraFills, second \in BOOLEAN :
         LET metricCodes == <<METRIC_PRICE, METRIC_COUNT>>
             n == SizesOf(nY, nP, nT, metricCodes)
             special == [d \in {DIM_YEAR, DIM_POSTAL, DIM_TYPE} |-> 0]
             js == JsonStat2(layout.ids, n, metricCodes, layout.keysReversed,
                             special, cells[1], cells[2])
             one == WithExtra(js, DIM_EXTRA, at, nE, fill)
         IN NewTransformer(IF second THEN WithExtra(one, DIM_EXTRA2, 5, 2, "number") ELSE one,
                           "statfin_ashi_pxt_13mu", MappingsWithout(unmapped))
    /\ OutsideIdle

SpecExtra == InitExtra /\ [][Next]_vars

\* ------------------------------------------- the dataset source (PX-Web)
\* A JS string whose characters the code inspects is a sequence of
\* one-character strings; Text gives the string it spells.
RECURSIVE Text(_)
Text(chars) == IF chars = <<>> THEN "" ELSE chars[1] \o Text(Tail(chars))

\* String.prototype.lastIndexOf(searchString, position): the greatest
\* 0-based index, not above position clamped to 0 .. length - search length,
\* at which searchString occurs; -1 when there is none.
LastIndexOf(str, searchString, position) ==
    LET clamped == IF position < 0 THEN 0 ELSE position
        room == Len(str) - Len(searchString)
        from == IF clamped < room THEN clamped ELSE room
        hits == {i \in 0..from : SubSeq(str, i + 1, i + Len(searchString)) = searchString}
    IN IF hits = {} THEN -1 ELSE CHOOSE i \in hits : \A j \in hits : j <= i

\* url.substring(start, end) for 0 <= start <= end <= length.
Substring(str, start, end) == SubSeq(str, start + 1, end)

\* The logger field of an object under construction: undefined until the
\* constructor assigns it.
Undefined == <<>>

\* extractTableName(url), run on an object whose logger field is `logger`:
\* what it returns or throws, and what it logged.
extractTableName(url, logger) ==
    LET pxPos == LastIndexOf(url, <<".", "p", "x">>, Len(url))
        lastSlashPos == LastIndexOf(url, <<"/">>, pxPos - 1)
    IN IF pxPos = -1 \/ lastSlashPos = -1
       THEN IF logger = Undefined
            THEN \* this.logger.error(err) on an undefined logger
                 [kind |-> "thrown", logged |-> <<>>,
                  error |-> [error |-> "TypeError", reading |-> "error"]]
            ELSE [kind |-> "thrown",
                  logged |-> <<"Failed to find slash OR .px in the given URL">>,
                  error |-> [error |-> "Failed to find slash OR .px in the given URL",
                             url |-> Text(url)]]
       ELSE [kind |-> "returned", logged |-> <<>>,
             value |-> Text(Substring(url, lastSlashPos + 1, pxPos))]

\* new PxWebDatasetSource(datasetUrl): the constructor assigns datasetUrl,
\* then datasetName = this.extractTableName(datasetUrl), then logger.
NewPxWebDatasetSource(datasetUrl) ==
    LET name == extractTableName(datasetUrl, Undefined)
    IN IF name.kind = "thrown"
       THEN [kind |-> "thrown", logged |-> name.logged, error |-> name.error]
       ELSE [kind |-> "created", logged |-> name.logged,
             object |-> [datasetUrl |-> datasetUrl, datasetName |-> name.value,
                         logger |-> "PxWebDatasetSource"]]

\* The URLs a caller may hand to the constructor: every text of up to
\* MaxUrlLen of these characters.
UrlChars == {"/", ".", "p", "x", "t"}

Urls == UNION {[1..n -> UrlChars] : n \in 0..MaxUrlLen}

\* A caller is about to construct a source for some URL.
InitSource ==
    /\ \E url \in Urls : main = [script |-> "source", pc |-> "start", url |-> url]
    /\ NoTransformer
    /\ DatabaseCreated
    /\ peer = [pc |-> "none"]

\* new PxWebDatasetSource(url) runs: the caller holds the object or the
\* error thrown.
ConstructSource ==
    /\ main.script = "source"
    /\ main.pc = "start"
    /\ main' = [script |-> "source", pc |-> "done", url |-> main.url,
                result |-> NewPxWebDatasetSource(main.url)]
    /\ UNCHANGED <<transformer, database, store, peer>>

SpecSource == InitSource /\ [][ConstructSource]_vars

\* The datasetUrl of main.
DATASET_URL ==
    <<"h", "t", "t", "p", "s", ":", "/", "/", "p", "x", "d", "a", "t", "a",
      ".", "s", "t", "a", "t", ".", "f", "i", "/", "P", "X", "W", "e", "b",
      "/", "a", "p", "i", "/", "v", "1", "/", "e", "n", "/", "S", "t", "a",
      "t", "F", "i", "n", "/", "s", "t", "a", "t", "f", "i", "n", "_", "a",
      "s", "h", "i", "_", "p", "x", "t", "_", "1", "3", "m", "u", ".", "p",
      "x">>

\* response.status; a fetch that was rejected has none.
StatusOf(response) == IF response.kind = "response" THEN response.status ELSE 0

\* The entry main's history keeps of a stage it called: whether the stage
\* has thrown, and the status of the response it got.
Called(stage, response) ==
    [stage |-> stage, ok |-> response.kind = "response" /\ response.status \in 200..299,
     status |-> StatusOf(response)]

\* response.ok: the status is in the range 200-299.
ResponseOk(response) == response.kind = "response" /\ response.status \in 200..299

\* What fetch() may come to: a response with a status and a body, or a
\* rejection (the network failed).
Responses(bodies) ==
    {[kind |-> "response", status |-> st, body |-> b] : st \in {200, 404, 503}, b \in bodies}
    \cup {[kind |-> "failed"]}

\* parseVariable(varObject): code ?? '', values ?? [].
parseVariable(varObject) ==
    [code |-> IF "code" \in DOMAIN varObject THEN varObject.code ELSE "",
     values |-> IF "values" \in DOMAIN varObject THEN varObject.values ELSE <<>>]

\* parseMetadata(jsonString): title ?? 'Unknown', (variables ?? []).map(...).
parseMetadata(jsonObject) ==
    [title |-> IF "title" \in DOMAIN jsonObject THEN jsonObject.title ELSE "Unknown",
     variables |-> IF "variables" \in DOMAIN jsonObject
                   THEN [i \in 1..Len(jsonObject.variables) |->
                            parseVariable(jsonObject.variables[i])]
                   ELSE <<>>]

\* The metadata documents the API may answer with.
MetadataBodies ==
    { [title |-> "Prices per square meter",
       variables |-> << [code |-> DIM_YEAR, values |-> <<"2024">>], [code |-> DIM_METRIC] >>],
      [source |-> "Statistics Finland"] }

\* The dataset documents the API may answer with: tables of one area, with
\* the categories the mapping table knows or with four, one of them unknown
\* to it, and documents of another class.
DatasetBodies ==
    { [JsonStat2(<<DIM_YEAR, DIM_POSTAL, DIM_TYPE, DIM_METRIC>>,
                 SizesOf(nY, 1, nT, metricCodes), metricCodes, FALSE,
                 [d \in {DIM_YEAR, DIM_POSTAL, DIM_TYPE} |-> 0], "flagged", "null")
         EXCEPT !.class = class] :
        nY \in 1..MaxYears, nT \in {MaxTypes, 4},
        metricCodes \in {<<METRIC_PRICE, METRIC_COUNT>>, <<METRIC_OTHER>>},
        class \in {"dataset", "collection"} }

\* ------------------------------------------- the ingestion script (index.ts)
\* main() of index.ts is about to run; no transformer exists yet.
InitIndexTs ==
    /\ main = [script |-> "index", pc |-> "start", log |-> <<>>, logged |-> <<>>]
    /\ NoTransformer
    /\ DatabaseCreated
    /\ peer = [pc |-> "none"]

\* The catch block of main: log "Extraction failed" and rethrow err, which
\* rejects the promise of main().
Rethrown(err) ==
    [main EXCEPT !.pc = "rejected", !.logged = Append(@, "Extraction failed")]
        @@ [error |-> err]

\* const dataSource = new PxWebDatasetSource(datasetUrl); const extractor =
\* new DatasetExtractor(): before the try block, so a throw is not caught.
NewDataSource ==
    /\ main.script = "index"
    /\ main.pc = "start"
    /\ LET made == NewPxWebDatasetSource(DATASET_URL)
       IN main' = IF made.kind = "created"
                  THEN [main EXCEPT !.pc = "fetchMetadata"] @@ [dataSource |-> made.object]
                  ELSE [main EXCEPT !.pc = "rejected"] @@ [error |-> made.error]
    /\ UNCHANGED <<transformer, database, store, peer>>

\* Mutant: the body is parsed whatever the status of the response.
FetchMetadataUnchecked ==
    /\ main.script = "index"
    /\ main.pc = "fetchMetadata"
    /\ \E response \in Responses(MetadataBodies) :
         LET called == [main EXCEPT !.log = Append(@, Called("fetchMetadata", response))]
         IN main' = IF response.kind = "failed"
                    THEN [called EXCEPT !.pc = "rejected"] @@ [error |-> [error |-> "fetch failed"]]
                    ELSE [called EXCEPT !.pc = "extract"]
                            @@ [metadata |-> parseMetadata(response.body)]
    /\ UNCHANGED <<transformer, database, store, peer>>

\* await dataSource.fetchMetadata(): GET the table's URL; a response that is
\* not ok throws, an ok one is parsed.
FetchMetadata ==
    /\ main.script = "index"
    /\ main.pc = "fetchMetadata"
    /\ \E response \in Responses(MetadataBodies) :
         LET called == [main EXCEPT !.log = Append(@, Called("fetchMetadata", response))]
         IN main' = IF response.kind = "failed"
                    THEN [Rethrown([error |-> "fetch failed"]) EXCEPT !.log = called.log]
                    ELSE IF ~ResponseOk(response)
                    THEN [Rethrown([error |-> "Failed to fetch metadata",
                                    status |-> response.status])
                             EXCEPT !.log = called.log,
                                    !.logged = <<"Failed to fetch metadata">> \o @]
                    ELSE [called EXCEPT !.pc = "extract"]
                            @@ [metadata |-> parseMetadata(response.body)]
    /\ UNCHANGED <<transformer, database, store, peer>>

\* await extractor.extract(metadata, dataSource.getUrl()): POST the query of
\* buildTestQuery; a response that is not ok throws, an ok one gives the raw
\* dataset { format, data, metadata }. A body is given as the document that
\* JSON.parse makes of it.
Extract ==
    /\ main.script = "index"
    /\ main.pc = "extract"
    /\ \E response \in Responses(DatasetBodies) :
         LET called == [main EXCEPT !.log = Append(@, Called("extract", response))]
         IN main' = IF response.kind = "failed"
                    THEN [Rethrown([error |-> "fetch failed"]) EXCEPT !.log = called.log]
                    ELSE IF ~ResponseOk(response)
                    THEN [Rethrown([error |-> "Failed to extract dataset",
                                    status |-> response.status])
                             EXCEPT !.log = called.log,
                                    !.logged = <<"Failed to extract dataset">> \o @]
                    ELSE [called EXCEPT !.pc = "transform"]
                            @@ [rawDataset |-> [format |-> "json-stat2",
                                                data |-> response.body,
                                                metadata |-> main.metadata]]
    /\ UNCHANGED <<transformer, database, store, peer>>

\* new DatasetTransformer(rawDataset, dataSource.datasetName,
\* STATFIN_BUILDING_TYPE_MAPPINGS) and the call of its transform().
NewDatasetTransformer ==
    /\ main.script = "index"
    /\ main.pc = "transform"
    /\ pc = "none"
    /\ jsonStat' = main.rawDataset.data
    /\ sourceName' = main.dataSource.datasetName
    /\ buildingTypeMappings' = STATFIN_BUILDING_TYPE_MAPPINGS
    /\ buildingTypeMap' = BuildTypeMap(STATFIN_BUILDING_TYPE_MAPPINGS)
    /\ pc' = "start"
    /\ main' = [main EXCEPT !.log = Append(@, [stage |-> "transform", ok |-> TRUE,
                                               status |-> 0])]
    /\ UNCHANGED <<dimensions, strides, yi, pi, ti, records, skipped, outcome>>
    /\ UNCHANGED <<database, store, peer>>

\* transform() returned: the result is printed and main() resolves; or it
\* threw: the catch block rethrows.
MainSettles ==
    /\ main.script = "index"
    /\ main.pc = "transform"
    /\ pc \in {"done", "failed"}
    /\ main' = IF pc = "done"
               THEN [main EXCEPT !.pc = "resolved"] @@ [printed |-> outcome.result]
               ELSE [Rethrown(outcome.message) EXCEPT !.log[Len(main.log)].ok = FALSE]
    /\ UNCHANGED <<transformer, database, store, peer>>

NextIndexTs ==
    \/ Next
    \/ NewDataSource \/ FetchMetadata \/ Extract \/ NewDatasetTransformer \/ MainSettles

SpecIndexTs == InitIndexTs /\ [][NextIndexTs]_vars

\* ------------------------------- the geometry script (fetchGeometries.ts)
\* The features of a WFS answer: postal code areas with their name,
\* municipality code and geometry. The second area is also published under
\* another name and without a geometry, and once with a code that does not
\* fit VARCHAR(5).
WfsFeature(i, name, geometry) ==
    [properties |-> [postinumeroalue |-> PostalCode(i), nimi |-> name,
                     kunta |-> "09" \o ToString(i + 1)],
     geometry |-> geometry]

\* A geometry object is <<its text>>, a missing one null.
WfsBodies ==
    LET a == WfsFeature(0, "Helsinki keskusta", <<"MultiPolygon A">>)
        b == WfsFeature(1, "Punavuori", <<"MultiPolygon B">>)
        c == WfsFeature(1, "Rodbergen", Null)
        long == [a EXCEPT !.properties.postinumeroalue = "001000"]
    IN {[features |-> fs] : fs \in {<<>>, <<a>>, <<b, a>>, <<b, c>>, <<c, a>>, <<a, long, b>>}}

\* data.features.map((f) => ({ postalCode: f.properties.postinumeroalue,
\* name: f.properties.nimi, municipality: f.properties.kunta, geometry:
\* f.geometry })).
PostalCodeFeatures(data) ==
    [i \in 1..Len(data.features) |->
        [postalCode |-> data.features[i].properties.postinumeroalue,
         name |-> data.features[i].properties.nimi,
         municipality |-> data.features[i].properties.kunta,
         geometry |-> data.features[i].geometry]]

\* The values of code that column postal_code.code VARCHAR(5) takes.
FitsPostalCode(code) == code \in {PostalCode(i) : i \in 0..MaxAreas}

\* The row that the VALUES list of storePostalCodeGeometries describes, a
\* nullable column holding <<v>> or null: geometryJson is
\* sql.json(f.geometry), or null for a falsy geometry.
GeometryRow(f) ==
    [code |-> f.postalCode, name |-> <<f.name>>, municipality |-> <<f.municipality>>,
     geometry |-> IF f.geometry # Null THEN f.geometry ELSE Null]

\* INSERT INTO postal_code (code, name, municipality, geometry) ... ON
\* CONFLICT (code) DO UPDATE SET name = EXCLUDED.name, municipality =
\* EXCLUDED.municipality, geometry = EXCLUDED.geometry.
UpsertPostalCode(rows, new) == {row \in rows : row.code # new.code} \cup {new}

\* The values storePostalCodeGeometries wrote last for each postal code.
Written(written, new) ==
    [code \in DOMAIN written \cup {new.code} |->
        IF code = new.code THEN new ELSE written[code]]

\* main() of fetchGeometries.ts is about to run, with DATABASE_URL set or
\* not.
GeometryScript(url) ==
    [script |-> "fetchGeometries", pc |-> "start", env |-> url, db |-> "none",
     closed |-> 0, stored |-> 0, written |-> <<>>, called |-> <<>>]

\* What is left of main after its try block: the finally block, then the
\* return or the pending error.
Finally(m, settled) == [m EXCEPT !.pc = "finally"] @@ [settled |-> settled]

\* new PostalCodeGeometrySource(); new DatabaseClient(): the constructor
\* throws when neither an argument nor DATABASE_URL gives a URL, before the
\* try block is entered.
NewDatabaseClient ==
    /\ main.script = "fetchGeometries"
    /\ main.pc = "start"
    /\ main' = IF main.env = Undefined
               THEN [main EXCEPT !.pc = "rejected"]
                       @@ [settled |-> [kind |-> "thrown", error |-> "DATABASE_URL not set"]]
               ELSE [main EXCEPT !.pc = "fetchAll", !.db = "open"]
    /\ UNCHANGED <<transformer, database, store, peer>>

\* await source.fetchAll(), and on its return the call of
\* storePostalCodeGeometries(features) up to its first statement: a response
\* that is not ok throws; no features: return 0.
FetchAll ==
    /\ main.script = "fetchGeometries"
    /\ main.pc = "fetchAll"
    /\ \E response \in Responses(WfsBodies) :
         LET called == [main EXCEPT !.called = Append(@, "fetchAll")]
         IN main' =
              IF response.kind = "failed"
              THEN Finally(called, [kind |-> "thrown", error |-> "fetch failed"])
              ELSE IF ~ResponseOk(response)
              THEN Finally(called, [kind |-> "thrown", error |-> "WFS request failed",
                                    status |-> response.status])
              ELSE LET features == PostalCodeFeatures(response.body)
                       storing == [called EXCEPT
                                     !.called = Append(@, "storePostalCodeGeometries")]
                   IN IF features = <<>>
                      THEN Finally(storing, [kind |-> "returned", count |-> 0])
                      ELSE [storing EXCEPT !.pc = "store"]
                              @@ [features |-> features, i |-> 0, count |-> 0]
    /\ UNCHANGED <<transformer, database, store, peer>>

\* One statement of storePostalCodeGeometries: the upsert of the next
\* feature; a code that does not fit the column makes the database refuse
\* the statement and the call throw. After the last one the call returns
\* count.
StorePostalCodeGeometry ==
    /\ main.script = "fetchGeometries"
    /\ main.pc = "store"
    /\ LET f == main.features[main.i + 1]
       IN IF main.i = Len(main.features)
          THEN /\ main' = Finally([main EXCEPT !.stored = main.count],
                                  [kind |-> "returned", count |-> main.count])
               /\ UNCHANGED postal_code
          ELSE IF ~FitsPostalCode(f.postalCode)
          THEN /\ main' = Finally(main, [kind |-> "thrown",
                                         error |-> "value too long for type character varying(5)"])
               /\ UNCHANGED postal_code
          ELSE /\ postal_code' = UpsertPostalCode(postal_code, GeometryRow(f))
               /\ main' = [main EXCEPT !.i = @ + 1, !.count = @ + 1,
                                       !.written = Written(@, GeometryRow(f))]
    /\ UNCHANGED <<transformer, data_source, building_type_mapping, price_data,
                   serial, now, store, peer>>

\* Mutant: close() is called at the end of the try block, not in a finally
\* block: an error leaves the connection open.
CloseUnlessThrown ==
    /\ main.script = "fetchGeometries"
    /\ main.pc = "finally"
    /\ main' = IF main.settled.kind = "thrown"
               THEN [main EXCEPT !.pc = "rejected"]
               ELSE [main EXCEPT !.pc = "resolved", !.db = "closed", !.closed = @ + 1,
                                 !.called = Append(@, "close")]
    /\ UNCHANGED <<transformer, database, store, peer>>

\* finally { await db.close(); }: the pool is ended, then main() returns or
\* the pending error is thrown on.
Close ==
    /\ main.script = "fetchGeometries"
    /\ main.pc = "finally"
    /\ main' = [main EXCEPT !.pc = IF main.settled.kind = "thrown" THEN "rejected"
                                   ELSE "resolved",
                            !.db = "closed", !.closed = @ + 1,
                            !.called = Append(@, "close")]
    /\ UNCHANGED <<transformer, database, store, peer>>

\* main().catch((err) => { logger.error(...); process.exit(1); }).
ExitOnFailure ==
    /\ main.script = "fetchGeometries"
    /\ main.pc = "rejected"
    /\ main' = [main EXCEPT !.pc = "exited"] @@ [exitCode |-> 1]
    /\ UNCHANGED <<transformer, database, store, peer>>

NextFetchGeometries ==
    NewDatabaseClient \/ FetchAll \/ StorePostalCodeGeometry \/ Close \/ ExitOnFailure

\* The rows that table postal_code may hold when the script starts: none,
\* or rows that ensurePostalCodes or an earlier run of the script left.
PostalCodeTables ==
    { {}, InsertPostalCode({}, PostalCode(0)),
      UpsertPostalCode(InsertPostalCode({}, PostalCode(0)),
                       [code |-> PostalCode(1), name |-> <<"Punavuori">>,
                        municipality |-> <<"091">>, geometry |-> Null]),
      {[code |-> PostalCode(0), name |-> <<"Helsingfors centrum">>,
        municipality |-> <<"091">>, geometry |-> <<"MultiPolygon 0">>]} }

InitFetchGeometries ==
    /\ \E url \in {<<"postgres://hsp@postgres/housing_prices">>, Undefined} :
          main = GeometryScript(url)
    /\ NoTransformer
    /\ data_source = {}
    /\ postal_code \in PostalCodeTables
    /\ building_type_mapping = {}
    /\ price_data = {}
    /\ serial = [data_source |-> 0, building_type_mapping |-> 0, price_data |-> 0]
    /\ now = 0
    /\ store = [pc |-> "idle", calls |-> 0, last |-> [kind |-> "none"]]
    /\ peer = [pc |-> "none"]

\* The script's awaits settle: the fetch is answered or fails, the database
\* answers each statement, the pool ends.
SpecFetchGeometries ==
    InitFetchGeometries /\ [][NextFetchGeometries]_vars /\ WF_vars(NextFetchGeometries)

\* ensurePostalCodes(codes) is called on its own: with no codes it returns
\* at once, otherwise its loop starts.
EnsurePostalCodesCall ==
    /\ store.pc = "idle"
    /\ Calls < MaxStores
    /\ \E codes \in {<<>>, <<PostalCode(1), PostalCode(0), PostalCode(1)>>} :
          store' = IF Len(codes) = 0 THEN Idle(Calls + 1, store.last)
                   ELSE [pc |-> "ensurePostalCodes", calls |-> Calls, last |-> store.last,
                         method |-> "ensurePostalCodes", codes |-> codes, k |-> 0]
    /\ UNCHANGED <<transformer, database, peer, main>>

\* The ingestion and the geometry script work on one database, each through
\* its own client; their statements interleave.
NextPostalCodes == NextStore \/ EnsurePostalCodesCall \/ NextFetchGeometries

\* One period and one category, mapped or not, of up to MaxAreas areas are
\* decoded and stored while the geometry script runs against the same, new database.
InitPostalCodes ==
    /\ \E nP \in 1..MaxAreas,
          cells \in {<<"number", "number">>, <<"flagged", "null">>},
          unmapped \in {{}, {"1"}} :
         LET n == SizesOf(1, nP, 1, <<METRIC_PRICE, METRIC_COUNT>>)
             special == [d \in {DIM_YEAR, DIM_POSTAL, DIM_TYPE} |-> 0]
         IN NewTransformer(
               JsonStat2(<<DIM_POSTAL, DIM_METRIC, DIM_YEAR, DIM_TYPE>>, n,
                         <<METRIC_PRICE, METRIC_COUNT>>, FALSE, special, cells[1], cells[2]),
               "statfin_ashi_pxt_13mu", MappingsWithout(unmapped))
    /\ DatabaseCreated
    /\ peer = [pc |-> "none"]
    /\ main = GeometryScript(<<"postgres://hsp@postgres/housing_prices">>)

SpecPostalCodes == InitPostalCodes /\ [][NextPostalCodes]_vars

\* ------------------------------------------------- what the claims speak of
Returned == outcome.kind = "returned"

\* The payload's own words, read without the decoder: a dimension's number of
\* categories, the code its category.index puts at a position, the position
\* of a code.
CategoryIndex(d) == jsonStat.dimension[d].category.index
NumCategories(d) == Len(CategoryIndex(d))
CodeAt(d, pos) ==
    LET e == CHOOSE e \in {CategoryIndex(d)[k] : k \in 1..NumCategories(d)} : e[2] = pos
    IN e[1]
PositionOf(d, code) ==
    LET e == CHOOSE e \in {CategoryIndex(d)[k] : k \in 1..NumCategories(d)} : e[1] = code
    IN e[2]
Positions(d) == 0..(NumCategories(d) - 1)
HasMetric(code) == \E pos \in Positions(DIM_METRIC) : CodeAt(DIM_METRIC, pos) = code

\* The row-major flat offset of a (period, area, category, metric) combination.
OffsetOf(y, p, t, m) ==
    RowMajor(jsonStat.id, jsonStat.size,
             [d \in Roles |-> IF d = DIM_YEAR THEN y ELSE IF d = DIM_POSTAL THEN p
                              ELSE IF d = DIM_TYPE THEN t ELSE m])

\* The category code at position t has an entry in the mapping table.
IsMapped(t) ==
    \E i \in 1..Len(buildingTypeMappings) :
        buildingTypeMappings[i].sourceCode = CodeAt(DIM_TYPE, t)

\* Passes of the loop body made so far.
PassesDone == (yi * NumCategories(DIM_POSTAL) + pi) * NumCategories(DIM_TYPE) + ti

\* ------------------------------------------------------------------ C1
\* C1: every (period, area, category) triple is accounted for exactly once:
\* while the loops run, records.length + skipped is the number of passes made,
\* and in the result records.length + skipped is the product of the numbers
\* of period, area and category codes.
C1_TriplesAccounted ==
    /\ pc = "loop" => Len(records) + skipped = PassesDone
    /\ Returned =>
          Len(outcome.result.records) + outcome.result.skipped
            = NumCategories(DIM_YEAR) * NumCategories(DIM_POSTAL) * NumCategories(DIM_TYPE)

\* A decode of eight triples has returned both records and skips, some of
\* the skips for an unmapped category and some for a cell without data.
C1_Witness ==
    /\ Returned
    /\ NumCategories(DIM_YEAR) * NumCategories(DIM_POSTAL) * NumCategories(DIM_TYPE) = 8
    /\ Len(outcome.result.records) >= 2
    /\ \E t \in Positions(DIM_TYPE) : ~IsMapped(t)
    /\ outcome.result.skipped > 4

\* ------------------------------------------------------------------ C2
\* The positions of the tracked metrics the payload publishes.
TrackedMetricPositions ==
    {m \in Positions(DIM_METRIC) : CodeAt(DIM_METRIC, m) \in {METRIC_PRICE, METRIC_COUNT}}

\* The call transform() makes of getValue for metric position m of (y, p, t).
ResolvedBy(js, strd, y, p, t, m) ==
    getValue(js.value,
             computeIndex(<<y, p, t, 0>>,
                          <<yearDimIdx(js.id), postalDimIdx(js.id),
                            typeDimIdx(js.id), metricDimIdx(js.id)>>,
                          strd, Len(js.id)),
             m, strd[metricDimIdx(js.id) + 1], js.status)

\* C2: whenever the status map has any entry keyed by the decimal string of
\* a metric's flat offset, getValue resolves that metric to null, whatever the
\* entry's status code and whatever the literal stored at the offset.
C2_OverrideForcesNull ==
    pc = "loop" =>
        \A y \in Positions(DIM_YEAR), p \in Positions(DIM_POSTAL),
           t \in Positions(DIM_TYPE), m \in TrackedMetricPositions :
            String(OffsetOf(y, p, t, m)) \in DOMAIN jsonStat.status
                => ResolvedBy(jsonStat, strides, y, p, t, m) = Null

\* ------------------------------------------------------------------ C3
\* The (period, area, category) positions a record may have been produced for.
TriplesOf(r) ==
    {<<y, p, t>> \in Positions(DIM_YEAR) \X Positions(DIM_POSTAL) \X Positions(DIM_TYPE) :
        /\ DateOfYear(CodeAt(DIM_YEAR, y)) = r.date
        /\ CodeAt(DIM_POSTAL, p) = r.postalCode
        /\ IsMapped(t)
        /\ buildingTypeMap[CodeAt(DIM_TYPE, t)] = r.buildingType}

LexLess(a, b) ==
    \/ a[1] < b[1]
    \/ a[1] = b[1] /\ a[2] < b[2]
    \/ a[1] = b[1] /\ a[2] = b[2] /\ a[3] < b[3]

Reverse(seq) == [k \in 1..Len(seq) |-> seq[Len(seq) + 1 - k]]

\* The same document with the keys of every category.index in reverse order.
KeysReversed(js) ==
    [js EXCEPT !.dimension =
        [d \in DOMAIN js.dimension |->
            [category |-> [index |-> Reverse(js.dimension[d].category.index)]]]]

\* C3: the returned records are in ascending period position, then area
\* position, then category position (the integers of each category.index),
\* and the same payload with its index keys in another order decodes to the
\* same records in the same order.
C3_RecordOrder ==
    Returned =>
        LET recs == outcome.result.records
        IN /\ \A i \in 1..Len(recs), j \in 1..Len(recs) :
                i < j => \E a \in TriplesOf(recs[i]), b \in TriplesOf(recs[j]) : LexLess(a, b)
           /\ Decode(KeysReversed(jsonStat), buildingTypeMappings, sourceName)
                = <<recs, outcome.result.skipped>>

\* Eight records were returned from a payload whose index keys are not in
\* position order and whose dimensions are declared metric first.
C3_Witness ==
    /\ Returned
    /\ Len(outcome.result.records) = 8
    /\ jsonStat.id[1] = DIM_METRIC
    /\ \A d \in {DIM_YEAR, DIM_POSTAL, DIM_TYPE} : CategoryIndex(d)[1][2] = 1

\* ------------------------------------------------------------------ C4
\* Size lists of up to four dimensions, empty dimensions included.
SizeLists == UNION {[1..k -> 0..MaxTypes] : k \in 1..4}

\* computeStrides on every size list: 1 for the last dimension, and the
\* product of the later sizes for every other.
StridesAreSuffixProducts ==
    \A sizes \in SizeLists :
        /\ computeStrides(sizes)[Len(sizes)] = 1
        /\ \A i \in 1..Len(sizes) :
              computeStrides(sizes)[i] = Prod(sizes, i + 1, Len(sizes))

\* C4: the strides transform() holds are the suffix products of the sizes,
\* and the offset it computes for every (period, area, category, metric)
\* cell, computeIndex(...) + m * stride[metric], is the row-major position.
C4_StridesRowMajor ==
    /\ StridesAreSuffixProducts
    /\ pc = "loop" =>
          /\ strides[Len(jsonStat.size)] = 1
          /\ \A i \in 1..Len(jsonStat.size) :
                strides[i] = Prod(jsonStat.size, i + 1, Len(jsonStat.size))
          /\ \A y \in Positions(DIM_YEAR), p \in Positions(DIM_POSTAL),
                t \in Positions(DIM_TYPE), m \in Positions(DIM_METRIC) :
                computeIndex(<<y, p, t, 0>>,
                             <<yearDimIdx(jsonStat.id), postalDimIdx(jsonStat.id),
                               typeDimIdx(jsonStat.id), metricDimIdx(jsonStat.id)>>,
                             strides, Len(jsonStat.id))
                  + m * strides[metricDimIdx(jsonStat.id) + 1]
                  = OffsetOf(y, p, t, m)

\* The loops are at the last triple of a 2 x 2 x 2 x 2 table whose
\* dimensions are declared area, metric, period, category.
C4_Witness ==
    /\ InLoop
    /\ jsonStat.id = <<DIM_POSTAL, DIM_METRIC, DIM_YEAR, DIM_TYPE>>
    /\ jsonStat.size = <<2, 2, 2, 2>>
    /\ yi = 1 /\ pi = 1 /\ ti = 1

\* ------------------------------------------------------------------ C5
\* The same table serialized with its dimensions declared in the order ids:
\* id and size permuted, the value array and the status keys laid out
\* row-major for that order.
Relayout(js, ids) ==
    LET sizes == [i \in 1..Len(ids) |-> js.size[IndexOf(js.id, ids[i]) + 1]]
        total == Prod(sizes, 1, Len(sizes))
        Was(o) == RowMajor(js.id, js.size, CoordsAt(ids, sizes, o))
        flagged == {o \in 0..(total - 1) : String(Was(o)) \in DOMAIN js.status}
    IN [js EXCEPT
          !.id = ids,
          !.size = sizes,
          !.value = [o \in {o \in 0..(total - 1) : Was(o) \in DOMAIN js.value} |->
                        js.value[Was(o)]],
          !.status = [key \in {String(o) : o \in flagged} |->
                        js.status[String(Was(CHOOSE o \in flagged : String(o) = key))]]]

\* C5: roles are resolved by name: a payload whose four dimensions are
\* declared in any order decodes to the same records in the same order and
\* the same skip count as the same table declared period, area, category,
\* metric.
C5_OrderOfDeclaration ==
    Returned =>
        Decode(Relayout(jsonStat, <<DIM_YEAR, DIM_POSTAL, DIM_TYPE, DIM_METRIC>>),
               buildingTypeMappings, sourceName)
          = <<outcome.result.records, outcome.result.skipped>>

\* A payload declared metric, category, area, period, with a status entry,
\* has decoded to records and skips.
C5_Witness ==
    /\ Returned
    /\ jsonStat.id = <<DIM_METRIC, DIM_TYPE, DIM_POSTAL, DIM_YEAR>>
    /\ jsonStat.size = <<2, 2, 2, 2>>
    /\ DOMAIN jsonStat.status # {}
    /\ Len(outcome.result.records) >= 4
    /\ outcome.result.skipped >= 1

\* ------------------------------------------------------------------ C6
\* C6: a pass for a triple whose category code has no entry in the mapping
\* table adds one to skipped, pushes no record and does not end the decode,
\* whatever its cells hold.
C6_UnmappedIsSkipped ==
    [][(InLoop /\ ~IsMapped(ti)) =>
          /\ skipped' = skipped + 1
          /\ records' = records
          /\ pc' = "loop"
          /\ outcome' = outcome]_vars

\* A table of sixteen plain numbers, its first category code unmapped, has
\* decoded to four records and four skips.
C6_Witness ==
    /\ Returned
    /\ ~IsMapped(0) /\ NumCategories(DIM_TYPE) = 2 /\ IsMapped(1)
    /\ DOMAIN jsonStat.status = {}
    /\ Cardinality(DOMAIN jsonStat.value) = 16
    /\ \A o \in DOMAIN jsonStat.value : jsonStat.value[o] # Null
    /\ outcome.result.skipped = 4
    /\ Len(outcome.result.records) = 4

\* ------------------------------------------------------------------ C7
\* What getValue resolves for a metric code of the triple (y, p, t), read at
\* the row-major offset: null when the payload does not publish the metric.
ResolvedMetric(y, p, t, code) ==
    IF ~HasMetric(code) THEN Null
    ELSE getValue(jsonStat.value, OffsetOf(y, p, t, PositionOf(DIM_METRIC, code)),
                  0, 1, jsonStat.status)

\* C7: a pass for a triple with a mapped category pushes exactly one record
\* when at least one of its two resolved metric values is non-null, and
\* otherwise pushes none and adds one to skipped.
C7_RecordIffData ==
    [][(InLoop /\ IsMapped(ti)) =>
          IF /\ ResolvedMetric(yi, pi, ti, METRIC_PRICE) = Null
             /\ ResolvedMetric(yi, pi, ti, METRIC_COUNT) = Null
          THEN skipped' = skipped + 1 /\ records' = records
          ELSE /\ skipped' = skipped
               /\ Len(records') = Len(records) + 1
               /\ SubSeq(records', 1, Len(records)) = records]_vars

\* Every category is mapped, one cell is flagged by a status code and
\* another is missing from the value array, and the decode returned with a
\* skip and with records.
C7_Witness ==
    /\ Returned
    /\ \A t \in Positions(DIM_TYPE) : IsMapped(t)
    /\ \E key \in DOMAIN jsonStat.status : jsonStat.status[key] # ""
    /\ Cardinality(DOMAIN jsonStat.value) < Prod(jsonStat.size, 1, Len(jsonStat.size))
    /\ outcome.result.skipped = 1
    /\ Len(outcome.result.records) >= 1

\* ------------------------------------------------------------------ C8
\* The payload with one more status entry.
WithStatus(js, key, code) ==
    [js EXCEPT !.status = [k \in (DOMAIN js.status) \cup {key} |->
                              IF k = key THEN code ELSE js.status[k]]]

\* C8: adding a status entry at the offset of one metric of one cell turns
\* that metric into null and leaves every other metric of every cell as it
\* resolves without the entry.
C8_OverrideIsLocal ==
    pc = "loop" =>
        \A y \in Positions(DIM_YEAR), p \in Positions(DIM_POSTAL),
           t \in Positions(DIM_TYPE), m \in TrackedMetricPositions,
           code \in {"...", ""} :
            LET key == String(OffsetOf(y, p, t, m))
                js2 == WithStatus(jsonStat, key, code)
            IN key \notin DOMAIN jsonStat.status =>
                 /\ ResolvedBy(js2, strides, y, p, t, m) = Null
                 /\ \A y2 \in Positions(DIM_YEAR), p2 \in Positions(DIM_POSTAL),
                       t2 \in Positions(DIM_TYPE), m2 \in TrackedMetricPositions :
                       <<y2, p2, t2, m2>> # <<y, p, t, m>> =>
                           ResolvedBy(js2, strides, y2, p2, t2, m2)
                             = ResolvedBy(jsonStat, strides, y2, p2, t2, m2)

\* ------------------------------------------------------------------ C9
\* n is the number x rounded to the nearest integer.
IsNearestInteger(n, x) ==
    /\ n[1] % Scale = 0
    /\ 2 * (n[1] - x[1]) <= Scale
    /\ 2 * (x[1] - n[1]) <= Scale

\* The offset holds a number and no status entry.
PlainNumberAt(o) ==
    /\ String(o) \notin DOMAIN jsonStat.status
    /\ o \in DOMAIN jsonStat.value
    /\ jsonStat.value[o] # Null

\* C9: in every record a non-null pricePerSqm is the literal at the offset
\* of (its period, its area, its category, the price metric), a non-null
\* transactionCount is the literal at the count metric's offset rounded to
\* the nearest integer, and in both cases that offset has no status entry
\* and a non-null literal.
C9_NeverInvents ==
    \A i \in 1..Len(records) :
        LET r == records[i]
        IN \E tr \in TriplesOf(r) :
             /\ r.pricePerSqm # Null =>
                   /\ HasMetric(METRIC_PRICE)
                   /\ LET o == OffsetOf(tr[1], tr[2], tr[3],
                                        PositionOf(DIM_METRIC, METRIC_PRICE))
                      IN PlainNumberAt(o) /\ r.pricePerSqm = jsonStat.value[o]
             /\ r.transactionCount # Null =>
                   /\ HasMetric(METRIC_COUNT)
                   /\ LET o == OffsetOf(tr[1], tr[2], tr[3],
                                        PositionOf(DIM_METRIC, METRIC_COUNT))
                      IN /\ PlainNumberAt(o)
                         /\ IsNearestInteger(r.transactionCount, jsonStat.value[o])

\* ----------------------------------------------------------------- C10
ExactlyOneMetric == HasMetric(METRIC_PRICE) # HasMetric(METRIC_COUNT)

\* C10: when exactly one of the two metric codes is published, the decode
\* does not fail, and in every record the absent metric's field is null
\* while the present metric's field is what getValue resolves at its offset
\* (rounded, for the count).
C10_OneMetricSuffices ==
    ExactlyOneMetric =>
        /\ pc # "failed"
        /\ outcome.kind # "thrown"
        /\ \A i \in 1..Len(records) :
              LET r == records[i]
              IN \E tr \in TriplesOf(r) :
                   LET price == ResolvedMetric(tr[1], tr[2], tr[3], METRIC_PRICE)
                       count == ResolvedMetric(tr[1], tr[2], tr[3], METRIC_COUNT)
                   IN IF HasMetric(METRIC_PRICE)
                      THEN r.transactionCount = Null /\ r.pricePerSqm = price /\ price # Null
                      ELSE /\ r.pricePerSqm = Null
                           /\ count # Null
                           /\ r.transactionCount = MathRound(count)

\* A table publishing an untracked metric and the price, but not the count,
\* has decoded to eight records.
C10_Witness ==
    /\ Returned
    /\ ExactlyOneMetric
    /\ NumCategories(DIM_METRIC) = 2
    /\ PositionOf(DIM_METRIC, METRIC_PRICE) = 1
    /\ Len(outcome.result.records) = 8

\* ----------------------------------------------------------------- C11
\* The payload has a metric dimension, and it holds neither tracked code.
NoTrackedMetric ==
    /\ HasCategoryIndex(jsonStat.dimension, DIM_METRIC)
    /\ ~HasMetric(METRIC_PRICE)
    /\ ~HasMetric(METRIC_COUNT)

\* C11: when the metric dimension holds neither the price nor the count
\* code, transform() ends by throwing: its first step leaves it failed with
\* an error and without records or a skip count, and it never reaches its
\* loops nor returns a result.
C11_NoMetricIsFatal ==
    /\ [](NoTrackedMetric =>
            /\ pc \in {"start", "failed"}
            /\ outcome.kind # "returned"
            /\ records = <<>> /\ skipped = 0)
    /\ [][(NoTrackedMetric /\ pc = "start") =>
            /\ pc' = "failed"
            /\ outcome'.kind = "thrown"
            /\ DOMAIN outcome' = {"kind", "message"}]_vars

\* A well-formed 2 x 2 x 2 table of numbers with every category mapped, but
\* publishing only an untracked metric, was refused for its metrics.
C11_Witness ==
    /\ pc = "failed"
    /\ NoTrackedMetric
    /\ jsonStat.size = <<2, 2, 2, 1>>
    /\ Len(buildingTypeMappings) = 4
    /\ outcome.message.error = "Neither price nor count metric found"
    /\ outcome.message.available = <<METRIC_OTHER>>

\* ----------------------------------------------------------------- C12
\* The required roles the payload's id list does not declare.
MissingRoles == {r \in Roles : \A i \in 1..Len(jsonStat.id) : jsonStat.id[i] # r}

\* The dimension names an error's text contains: "Missing expected
\* dimension(s). Found: a, b" contains the declared ids, "Dimension 'a'
\* missing category index" the one dimension, the other texts none.
NamedIn(message) ==
    IF "found" \in DOMAIN message
    THEN {message.found[i] : i \in 1..Len(message.found)}
    ELSE IF "dimension" \in DOMAIN message THEN {message.dimension}
    ELSE {}

\* transform() throws whenever a required role is not declared.
MissingRoleIsFatal ==
    (MissingRoles # {} /\ pc # "start") => (pc = "failed" /\ outcome.kind = "thrown")

\* C12: when a required role is absent from the id list, transform() fails
\* with an error, and the error names every required role that is missing.
C12_MissingRolesReported ==
    (MissingRoles # {} /\ pc # "start") =>
        /\ pc = "failed"
        /\ outcome.kind = "thrown"
        /\ MissingRoles \subseteq NamedIn(outcome.message)

\* ----------------------------------------------------------------- C13
\* The payload's class member, <<>> when it has none.
DeclaredClass == IF "class" \in DOMAIN jsonStat THEN <<jsonStat.class>> ELSE <<>>

NotADataset == DeclaredClass # <<"dataset">>

\* C13: a payload whose class is not 'dataset', or that has no class, makes
\* transform() throw the class error in its first step, whatever its
\* dimensions are like: no dimension lookup is kept, the loops are never
\* entered and no result is returned.
C13_ClassIsCheckedFirst ==
    /\ [](NotADataset =>
            /\ pc \in {"start", "failed"}
            /\ outcome.kind # "returned"
            /\ dimensions = <<>> /\ strides = <<>>
            /\ records = <<>> /\ skipped = 0)
    /\ [][(NotADataset /\ pc = "start") =>
            /\ pc' = "failed"
            /\ outcome'.kind = "thrown"
            /\ outcome'.message = [error |-> "Unexpected json-stat2 class",
                                   class |-> IF DeclaredClass = <<>> THEN "undefined"
                                             ELSE DeclaredClass[1]]]_vars

\* A payload of class 'collection' whose period dimension has no category
\* index was refused for its class, not for its dimension.
C13_Witness ==
    /\ pc = "failed"
    /\ DeclaredClass = <<"collection">>
    /\ DIM_YEAR \notin DOMAIN jsonStat.dimension
    /\ jsonStat.id[1] = DIM_YEAR
    /\ outcome.message.error = "Unexpected json-stat2 class"

\* A payload without a class, otherwise a complete 2 x 2 x 2 x 2 table, was
\* refused.
C13_WitnessAbsent ==
    /\ pc = "failed"
    /\ DeclaredClass = <<>>
    /\ jsonStat.size = <<2, 2, 2, 2>>
    /\ MissingRoles = {}

\* ----------------------------------------------------------------- C14
\* The payload is a dataset declaring the four roles, each with an index.
SchemaIntact ==
    /\ DeclaredClass = <<"dataset">>
    /\ MissingRoles = {}
    /\ \A d \in Roles : HasCategoryIndex(jsonStat.dimension, d)

\* The dimensions that declare no category.
EmptyDimensions == {d \in Roles : NumCategories(d) = 0}

\* C14 as stated: whenever any of the four dimensions, the metric dimension
\* included, declares zero categories and the value array is empty,
\* transform() raises no error and has 0 records and skipped = 0.
C14_AnyEmptyDimensionSucceeds ==
    (SchemaIntact /\ EmptyDimensions # {} /\ DOMAIN jsonStat.value = {} /\ pc # "start") =>
        /\ pc # "failed"
        /\ outcome.kind # "thrown"
        /\ records = <<>> /\ skipped = 0

\* A table with an empty period, area or category dimension that publishes
\* a tracked metric.
EmptyTable ==
    /\ SchemaIntact
    /\ EmptyDimensions \cap {DIM_YEAR, DIM_POSTAL, DIM_TYPE} # {}
    /\ DOMAIN jsonStat.value = {}
    /\ HasMetric(METRIC_PRICE) \/ HasMetric(METRIC_COUNT)

\* C14 amended: whenever the period, area or category dimension declares zero
\* categories, with an empty value array, and the metric dimension publishes
\* a tracked metric, transform() enters its loops, makes no pass and returns
\* 0 records and skipped = 0 without an error.
C14_EmptyTableSucceeds ==
    /\ [](EmptyTable =>
            /\ pc # "failed" /\ outcome.kind # "thrown"
            /\ records = <<>> /\ skipped = 0
            /\ ~InLoop
            /\ Returned => (outcome.result.records = <<>> /\ outcome.result.skipped = 0))
    /\ [][EmptyTable =>
            /\ pc = "start" => pc' = "loop"
            /\ pc = "loop" => (pc' = "done" /\ outcome'.kind = "returned")]_vars

\* The table of the test 'empty dataset': no period, one area, one category,
\* both metrics, decoded with a mapping for the category to an empty result.
C14_Witness ==
    /\ Returned
    /\ EmptyTable
    /\ jsonStat.size = <<0, 1, 1, 2>>
    /\ IsMapped(0)
    /\ outcome.result.records = <<>>
    /\ outcome.result.skipped = 0

\* ----------------------------------------------------------------- C15
\* The schema-level checks pass: a dataset, the four roles, a category index
\* for every dimension, a tracked metric.
SchemaChecksPass ==
    /\ SchemaIntact
    /\ HasMetric(METRIC_PRICE) \/ HasMetric(METRIC_COUNT)

\* C15: when the schema-level checks pass, transform() never throws and
\* eventually returns a result, whatever the value array (also one shorter
\* than the product of the sizes), the status map and the mapping table hold.
C15_AlwaysReturns ==
    /\ [](SchemaChecksPass => (pc # "failed" /\ outcome.kind # "thrown"))
    /\ [](SchemaChecksPass => <>Returned)

\* A table whose value array is shorter than the product of its sizes and
\* whose first category has no mapping was decoded to records and skips.
C15_Witness ==
    /\ Returned
    /\ SchemaChecksPass
    /\ Cardinality(DOMAIN jsonStat.value) < Prod(jsonStat.size, 1, Len(jsonStat.size))
    /\ NumCategories(DIM_TYPE) = 2 /\ ~IsMapped(0) /\ IsMapped(1)
    /\ Len(outcome.result.records) >= 1
    /\ outcome.result.skipped >= 2

\* ----------------------------------------------------------------- C18
\* C18: the source name and the mapping list given to the constructor are
\* never changed, the result carries that source name, in itself and in
\* every record, and its buildingTypeMappings is that mapping list, entry
\* for entry, whether or not an entry's source code occurs in the table.
C18_ResultCarriesInputs ==
    /\ [](Returned =>
            /\ outcome.result.sourceName = sourceName
            /\ \A i \in 1..Len(outcome.result.records) :
                  outcome.result.records[i].sourceName = sourceName
            /\ outcome.result.buildingTypeMappings = buildingTypeMappings)
    /\ [][/\ sourceName' = sourceName
          /\ buildingTypeMappings' = buildingTypeMappings]_vars

\* A table with the single category '1' was decoded for 'test_source' with
\* the four-entry table: records were returned, and so were the entries
\* for '2', '3' and '5'.
C18_Witness ==
    /\ Returned
    /\ sourceName = "test_source"
    /\ NumCategories(DIM_TYPE) = 1
    /\ Len(outcome.result.records) >= 2
    /\ outcome.result.buildingTypeMappings = STATFIN_BUILDING_TYPE_MAPPINGS

\* A decode with an empty mapping list returned an empty list and only skips.
C18_WitnessEmpty ==
    /\ Returned
    /\ outcome.result.buildingTypeMappings = <<>>
    /\ outcome.result.records = <<>>
    /\ outcome.result.skipped = 8

\* ----------------------------------------------------------------- C19
\* The canonical code the mapping list gives for a source code.
CanonicalOf(code) ==
    LET i == CHOOSE i \in 1..Len(buildingTypeMappings) :
                 buildingTypeMappings[i].sourceCode = code
    IN buildingTypeMappings[i].canonicalCode

\* The instant new Date(Date.UTC(year, 0, 1)) of a period code, by its ISO
\* text: the first day of the year at midnight UTC.
FirstOfYear(code) == code \o "-01" \o "-01" \o "T00:00:00Z"

\* C19: the record pushed by the pass for the triple (yi, pi, ti) has the
\* area code at position pi of the area index as its postalCode, the
\* canonical code of the category code at position ti of the category
\* index as its buildingType, and the first-of-year instant of the period
\* code at position yi of the period index as its date.
C19_RecordDescribesTriple ==
    [][(InLoop /\ Len(records') = Len(records) + 1) =>
          LET r == records'[Len(records')]
          IN /\ r.postalCode = CodeAt(DIM_POSTAL, pi)
             /\ IsMapped(ti)
             /\ r.buildingType = CanonicalOf(CodeAt(DIM_TYPE, ti))
             /\ r.date = FirstOfYear(CodeAt(DIM_YEAR, yi))]_vars

\* The decode of a table declared metric first, with its index keys in
\* reverse, has pushed the record of the last triple: area 00200, the
\* two-room flats, 2024.
C19_Witness ==
    /\ Returned
    /\ jsonStat.id[1] = DIM_METRIC
    /\ CategoryIndex(DIM_POSTAL)[1][2] = 1
    /\ Len(records) = 8
    /\ records[8].postalCode = "00200"
    /\ records[8].buildingType = "apartment_2r"
    /\ records[8].date = "2024-01-01T00:00:00Z"
    /\ records[1].postalCode = "00100"
    /\ records[1].buildingType = "apartment_1r"
    /\ records[1].date = "2023-01-01T00:00:00Z"

\* ----------------------------------------------------------------- C16
\* A call of transform() ends while the caller holds an earlier outcome.
EndsAgain == pc \in {"start", "loop"} /\ pc' \in {"done", "failed"} /\ outcome.kind # "pending"

\* C16: a call of transform() on a transformer that has already run ends
\* with the outcome of the earlier call, the same records in the same
\* order and the same skipped count (or the same error), and it has not
\* changed the transformer's fields; and every result is the one a fresh
\* transformer computes from the same payload, source name and mappings.
C16_RunsAgree ==
    /\ [][EndsAgain => outcome' = outcome]_vars
    /\ [][inputs' = inputs]_vars
    /\ [](Returned =>
            <<outcome.result.records, outcome.result.skipped>>
              = Decode(jsonStat, buildingTypeMappings, sourceName))

\* A second call is in its loops after a first call returned three records
\* and five skips: it has emptied its records and its skip count, and has
\* skipped once and pushed once again.
C16_Witness ==
    /\ pc = "loop"
    /\ Returned
    /\ Len(outcome.result.records) = 3
    /\ outcome.result.skipped = 5
    /\ Len(records) = 1 /\ skipped = 1

\* ----------------------------------------------------------------- C17
\* A call of insertPriceRecords, made on its own or by storeTransformResult,
\* returns.
StoreReturns == store.pc = "insertPriceRecords" /\ store'.pc = "idle" /\ store'.last.kind = "stored"

\* The call that returns stores what the call before it stored: the same
\* records for the same source.
StoredBefore ==
    /\ store.last.kind = "stored"
    /\ store.last.records = store.result.records
    /\ store.last.sourceId = store.sourceId

\* C17: price_data never holds two rows with the same (postal_code,
\* building_type, date, source_id), nor two rows with the same id; no step
\* removes a row or changes a row's id or key, and a step adds at most one
\* row, for a key the table did not hold; a call that returns leaves every
\* record's metric values in the row of its key; and a call that stores
\* what the call before it stored leaves the table as that call left it.
C17_UpsertIsIdempotent ==
    /\ [](\A a \in price_data, b \in price_data :
             (PriceKey(a) = PriceKey(b) \/ a.id = b.id) => a = b)
    /\ [][/\ \A row \in price_data :
                \E kept \in price_data' : kept.id = row.id /\ PriceKey(kept) = PriceKey(row)
          /\ Cardinality(price_data') <= Cardinality(price_data) + 1
          /\ \A new \in price_data' :
                (\A row \in price_data : row.id # new.id) =>
                    (\A row \in price_data : PriceKey(row) # PriceKey(new))]_vars
    /\ [][StoreReturns =>
            /\ \A i \in 1..Len(store.result.records) :
                  LET want == PriceRow(0, store.result.records[i], store.sourceId)
                  IN \E row \in price_data :
                        /\ PriceKey(row) = PriceKey(want)
                        /\ row.price_per_sqm = want.price_per_sqm
                        /\ row.transaction_count = want.transaction_count
            /\ StoredBefore => price_data = store.last.table]_vars

\* The second store of the same eight records for the same source is about
\* to return: the table holds eight rows and is as the first store left it.
C17_Witness ==
    /\ store.pc = "insertPriceRecords"
    /\ store.method = "storeTransformResult"
    /\ store.i = 8 /\ Len(store.result.records) = 8
    /\ StoredBefore
    /\ Cardinality(price_data) = 8
    /\ price_data = store.last.table

\* A store of revised values has overwritten the price of a row that an
\* earlier store created, and added no row.
C17_WitnessOverwritten ==
    /\ store.pc = "insertPriceRecords"
    /\ store.i = Len(store.result.records)
    /\ store.last.kind = "stored"
    /\ store.last.sourceId = store.sourceId
    /\ store.last.records # store.result.records
    /\ price_data # store.last.table
    /\ Cardinality(price_data) = Cardinality(store.last.table)
    /\ Cardinality(price_data) >= 4

\* ----------------------------------------------------------------- C20
\* The result the transformer t returns when its transform() runs alone.
ResultAlone(t) ==
    LET out == Decode(t.jsonStat, t.buildingTypeMappings, t.sourceName)
    IN [records |-> out[1], skipped |-> out[2], sourceName |-> t.sourceName,
        buildingTypeMappings |-> t.buildingTypeMappings]

\* What a transformer was constructed with.
InputsOf(t) == <<t.jsonStat, t.sourceName, t.buildingTypeMappings, t.buildingTypeMap>>

\* C20: of two transform() calls on different datasets whose steps are
\* interleaved in any order, each ends with the result of its own payload,
\* source name and mappings decoded alone, and a step of one call changes
\* neither its own inputs nor anything of the other transformer or call.
C20_InterleavedRunsAgree ==
    /\ [](/\ pc # "failed" /\ peer.pc # "failed"
          /\ pc = "done" =>
                outcome = [kind |-> "returned", result |-> ResultAlone(Running)]
          /\ peer.pc = "done" =>
                peer.outcome = [kind |-> "returned", result |-> ResultAlone(peer)])
    /\ [][\/ peer' = peer /\ InputsOf(Running') = InputsOf(Running)
          \/ peer' = Running /\ Running' = peer]_vars

\* One call has run from its start to its return while the other was
\* suspended in its loops, between two pushes, on another dataset.
C20_Witness ==
    /\ pc = "done"
    /\ Len(outcome.result.records) >= 2
    /\ peer.pc = "loop"
    /\ Len(peer.records) = 1
    /\ peer.yi * 100 + peer.pi * 10 + peer.ti > 0
    /\ peer.jsonStat # jsonStat
    /\ peer.outcome.kind = "pending"

\* ----------------------------------------------------------------- C21
\* The declared dimensions without a category index, by their place in id.
Indexless ==
    IF "dimension" \notin DOMAIN jsonStat THEN 1..Len(jsonStat.id)
    ELSE {i \in 1..Len(jsonStat.id) :
             ~HasCategoryIndex(jsonStat.dimension, jsonStat.id[i])}

\* The first of them in the order of id.
FirstIndexless == jsonStat.id[CHOOSE i \in Indexless : \A j \in Indexless : i <= j]

\* transform() threw the error that names the dimension d.
RefusedFor(d) ==
    /\ pc = "failed"
    /\ outcome.kind = "thrown"
    /\ outcome.message = [error |-> "Dimension missing category index", dimension |-> d]

DatasetWithDimensions == DeclaredClass = <<"dataset">> /\ "dimension" \in DOMAIN jsonStat

C21_WitnessNoCategory ==
    /\ RefusedFor(DIM_POSTAL)
    /\ DIM_POSTAL \in DOMAIN jsonStat.dimension
    /\ "category" \notin DOMAIN jsonStat.dimension[DIM_POSTAL]

\* A dataset with every index present, the period and metric ones empty, went
\* past the dimension lookup and was refused for its metrics instead.
C21_WitnessEmptyIndex ==
    /\ pc = "failed"
    /\ Indexless = {}
    /\ CategoryIndex(DIM_YEAR) = <<>>
    /\ CategoryIndex(DIM_METRIC) = <<>>
    /\ outcome.message.error = "Neither price nor count metric found"

\* ----------------------------------------------------------------- C22
\* The size the payload declares for a dimension.
DeclaredSize(d) == jsonStat.size[IndexOf(jsonStat.id, d) + 1]

\* The declared sizes are the lengths of the category lists.
SizesAgree == \A d \in Roles : DeclaredSize(d) = NumCategories(d)

\* The triples of the category lists.
NumTriples == NumCategories(DIM_YEAR) * NumCategories(DIM_POSTAL) * NumCategories(DIM_TYPE)

C22_WitnessAgree ==
    /\ Returned
    /\ SchemaChecksPass
    /\ SizesAgree
    /\ jsonStat.size = <<2, 2, 2, 2>>
    /\ Len(outcome.result.records) + outcome.result.skipped = 8

\* ----------------------------------------------------------------- C23
\* The stages of the pipeline, in the order of main.
Stages == <<"fetchMetadata", "extract", "transform">>

\* The errors the two fetch stages throw.
FetchErrors == {"Failed to fetch metadata", "Failed to extract dataset", "fetch failed"}

\* The stage main called last.
LastCalled == main.log[Len(main.log)]

\* C23: main calls its stages in the order metadata fetch, dataset fetch,
\* transform, each at most once; a stage that got a non-success response
\* has thrown; a stage that has thrown is the last one called, its error is
\* what main() rejects with, and nothing happens afterwards; a transformer
\* exists only for a dataset fetched with a success response; and an error
\* of transform() is never a fetch error.
C23_StagesInOrder ==
    /\ [](/\ Len(main.log) <= Len(Stages)
          /\ \A i \in 1..Len(main.log) : main.log[i].stage = Stages[i])
    /\ [](\A i \in 1..Len(main.log) :
            /\ (main.log[i].stage # "transform" /\ main.log[i].status \notin 200..299)
                  => ~main.log[i].ok
            /\ ~main.log[i].ok =>
                  /\ i = Len(main.log)
                  /\ main.pc = "rejected"
                  /\ "error" \in DOMAIN main)
    /\ []((main.pc = "rejected" /\ main.log # <<>>) =>
            /\ ~LastCalled.ok
            /\ LastCalled.stage # "transform" =>
                  /\ main.error.error \in FetchErrors
                  /\ main.error.error # "fetch failed" => main.error.status = LastCalled.status
                  /\ pc = "none" /\ outcome.kind = "pending"
            /\ LastCalled.stage = "transform" =>
                  /\ pc = "failed"
                  /\ main.error = outcome.message
                  /\ main.error.error \notin FetchErrors)
    /\ [](pc # "none" =>
            /\ Len(main.log) = 3
            /\ main.log[1].ok /\ main.log[2].ok
            /\ main.log[2].status \in 200..299
            /\ jsonStat = main.rawDataset.data
            /\ main.rawDataset.metadata = main.metadata)
    /\ [][main.pc \in {"rejected", "resolved"} => UNCHANGED vars]_vars

\* The metadata was fetched, the dataset fetch was answered with status 503:
\* main() rejected with that error and no transformer was ever constructed.
C23_Witness ==
    /\ main.pc = "rejected"
    /\ Len(main.log) = 2
    /\ main.log[1].ok
    /\ LastCalled = [stage |-> "extract", ok |-> FALSE, status |-> 503]
    /\ main.error = [error |-> "Failed to extract dataset", status |-> 503]
    /\ pc = "none"

\* Both fetches succeeded and transform() threw for the document's class:
\* main() rejected with the transformer's error.
C23_WitnessTransform ==
    /\ main.pc = "rejected"
    /\ Len(main.log) = 3
    /\ main.error.error = "Unexpected json-stat2 class"

\* Both fetches succeeded and the table was decoded and printed.
C23_WitnessResolved ==
    /\ main.pc = "resolved"
    /\ Len(main.printed.records) > 0
    /\ main.printed.sourceName = "statfin_ashi_pxt_13mu"

\* ---------------------------------------------------------------- C24
\* The columns that storePostalCodeGeometries sets.
Described(row) == [name |-> row.name, municipality |-> row.municipality,
                   geometry |-> row.geometry]

\* Nothing describes the postal code yet.
Undescribed(row) == Described(row) = [name |-> Null, municipality |-> Null,
                                      geometry |-> Null]

\* C24: ensurePostalCodes only inserts missing postal codes and never changes
\* an existing row: however the statements of storePostalCodeGeometries and
\* of ensurePostalCodes (called on its own or by storeTransformResult)
\* interleave, every row of a code that storePostalCodeGeometries wrote
\* holds the name, municipality and geometry it wrote last, every other row
\* has the three null, and a step of ensurePostalCodes leaves every
\* existing row as it was.
C24_EnsureKeepsDescriptions ==
    /\ [](\A row \in postal_code :
             IF row.code \in DOMAIN main.written
             THEN row = main.written[row.code]
             ELSE Undescribed(row))
    /\ [][EnsurePostalCodes => \A row \in postal_code : row \in postal_code']_vars

\* ensurePostalCodes has just met a code that the geometry script described,
\* geometry included, and has inserted another one.
C24_Witness ==
    /\ store.pc = "ensurePostalCodes"
    /\ store.k >= 1
    /\ LET code == UniqueCodes(CodesToEnsure)[store.k]
       IN /\ code \in DOMAIN main.written
          /\ main.written[code].geometry # Null
    /\ \E row \in postal_code : Undescribed(row)

\* The same within storeTransformResult, after the script rewrote a code
\* without a geometry.
C24_WitnessRewritten ==
    /\ store.pc = "storeBuildingTypeMappings"
    /\ \E code \in DOMAIN main.written :
          /\ main.written[code].geometry = Null
          /\ \E i \in 1..Len(store.result.records) : store.result.records[i].postalCode = code

\* ---------------------------------------------------------------- C25
\* The places (1-based) at which ".px" occurs in the URL.
PxPlaces(url) == {i \in 1..(Len(url) - 2) : SubSeq(url, i, i + 2) = <<".", "p", "x">>}

\* The URL contains no ".px", or no "/" before the last one.
NoTableName(url) ==
    \/ PxPlaces(url) = {}
    \/ LET last == CHOOSE i \in PxPlaces(url) : \A j \in PxPlaces(url) : j <= i
       IN \A j \in 1..(last - 1) : url[j] # "/"

Constructing == main.script = "source" /\ main.pc = "done"

\* C25: constructing a PxWebDatasetSource with a URL that contains no ".px"
\* or no "/" before it fails with the descriptive error "Failed to find slash
\* OR .px in the given URL..." of extractTableName, logged and then thrown,
\* and no source object is created.
C25_DescriptiveErrorThrown ==
    (Constructing /\ NoTableName(main.url)) =>
        /\ main.result.kind = "thrown"
        /\ main.result.error.error = "Failed to find slash OR .px in the given URL"
        /\ main.result.logged = <<"Failed to find slash OR .px in the given URL">>

\* What the constructor does instead: no object is created for such a URL
\* (and only for such a URL), but the error is the TypeError of reading
\* error of the logger not yet assigned, and nothing is logged.
C25_TypeErrorThrown ==
    Constructing =>
        /\ NoTableName(main.url) <=> main.result.kind = "thrown"
        /\ main.result.kind = "thrown" =>
              /\ main.result.error = [error |-> "TypeError", reading |-> "error"]
              /\ main.result.logged = <<>>

\* A URL with ".px" but no "/" before it was refused.
C25_Witness ==
    /\ Constructing
    /\ main.url = <<"t", ".", "p", "x">>
    /\ main.result.kind = "thrown"

\* A URL with a table name made a source.
C25_WitnessCreated ==
    /\ Constructing
    /\ main.url = <<"/", "t", ".", "p", "x">>
    /\ main.result.kind = "created"
    /\ main.result.object.datasetName = "t"

\* ---------------------------------------------------------------- C26
\* The try block of the geometry script ended with an error.
TryThrew == "settled" \in DOMAIN main /\ main.settled.kind = "thrown" /\ main.db # "none"

\* The error is one of fetchAll.
FetchAllThrew == TryThrew /\ main.settled.error \in {"fetch failed", "WFS request failed"}

CallsOf(method) == Cardinality({i \in 1..Len(main.called) : main.called[i] = method})

\* C26: in the geometry script, once the DatabaseClient has been constructed
\* its close() is eventually called, and exactly once, on every path: after
\* a fetch and store that succeed, when fetchAll fails (and then
\* storePostalCodeGeometries is never called) and when
\* storePostalCodeGeometries fails; a failure then leads to process exit
\* with code 1.
C26_ClosedExactlyOnce ==
    /\ [](main.db # "none" => <>(main.closed = 1 /\ main.db = "closed"))
    /\ [](main.closed <= 1 /\ main.closed = CallsOf("close"))
    /\ [](main.db = "closed" => [](main.closed = 1))
    /\ [](FetchAllThrew => [](CallsOf("storePostalCodeGeometries") = 0))
    /\ [](TryThrew => <>(main.pc = "exited" /\ main.exitCode = 1 /\ main.closed = 1))
    /\ [](main.pc = "resolved" => main.settled.kind = "returned")

\* storePostalCodeGeometries failed after its first statement; the client
\* was closed and the process left with code 1.
C26_Witness ==
    /\ main.script = "fetchGeometries"
    /\ main.pc = "exited"
    /\ main.exitCode = 1
    /\ main.closed = 1
    /\ main.called = <<"fetchAll", "storePostalCodeGeometries", "close">>
    /\ main.written # <<>>

\* fetchAll failed: the client was closed without a store.
C26_WitnessFetchFailed ==
    /\ main.script = "fetchGeometries"
    /\ main.pc = "exited"
    /\ main.called = <<"fetchAll", "close">>

\* Fetch and store succeeded and the client was closed.
C26_WitnessStored ==
    /\ main.script = "fetchGeometries"
    /\ main.pc = "resolved"
    /\ main.closed = 1
    /\ main.stored = 2

\* ---------------------------------------------------------------- C27
\* The category positions of every dimension are unique and contiguous from 0.
PositionsContiguous ==
    \A d \in Roles :
        /\ {CategoryIndex(d)[k][2] : k \in 1..NumCategories(d)} = Positions(d)
        /\ \A j, k \in 1..NumCategories(d) :
              CategoryIndex(d)[j][2] = CategoryIndex(d)[k][2] => j = k

\* The flat offset that a pass for (y, p, t) hands to getValue for metric
\* position m: baseIndex + metricOffset * metricStride.
ComputedOffset(y, p, t, m) ==
    computeIndex(<<y, p, t, 0>>,
                 <<yearDimIdx(jsonStat.id), postalDimIdx(jsonStat.id),
                   typeDimIdx(jsonStat.id), metricDimIdx(jsonStat.id)>>,
                 strides, Len(jsonStat.id))
    + m * strides[metricDimIdx(jsonStat.id) + 1]

\* The (period, area, category, metric position) combinations of the lists.
Combinations ==
    Positions(DIM_YEAR) \X Positions(DIM_POSTAL) \X Positions(DIM_TYPE) \X Positions(DIM_METRIC)

\* C27: for a dataset whose declared sizes equal the lengths of its category
\* lists and whose category positions are unique and contiguous from 0,
\* every flat offset transform() computes for a (period, area, category,
\* metric position) lies in 0 .. product(sizes) - 1, and two different
\* combinations never get the same offset.
C27_OffsetsInRangeAndDistinct ==
    (pc \in {"loop", "done"} /\ SizesAgree /\ PositionsContiguous) =>
        /\ \A c \in Combinations :
              ComputedOffset(c[1], c[2], c[3], c[4])
                 \in 0..(Prod(jsonStat.size, 1, Len(jsonStat.size)) - 1)
        /\ \A c, e \in Combinations :
              ComputedOffset(c[1], c[2], c[3], c[4]) = ComputedOffset(e[1], e[2], e[3], e[4])
                 => c = e

\* The traversal of a table declared metric first, with several periods,
\* areas and categories, is under way past the first period and area.
C27_Witness ==
    /\ InLoop
    /\ SizesAgree /\ PositionsContiguous
    /\ jsonStat.id[1] = DIM_METRIC
    /\ yi >= 1 /\ pi >= 1
    /\ NumCategories(DIM_TYPE) >= 2
    /\ ComputedOffset(yi, pi, ti, 1) > ComputedOffset(yi, pi, ti, 0) + 1

\* Where the sizes disagree with the lists, two combinations share an offset.
C27_WitnessDisagree ==
    /\ InLoop
    /\ ~SizesAgree
    /\ \E c, e \in Combinations :
          /\ c # e
          /\ ComputedOffset(c[1], c[2], c[3], c[4]) = ComputedOffset(e[1], e[2], e[3], e[4])

\* ---------------------------------------------------------------- C28
\* The mapping table gives the dataset's category codes pairwise different
\* canonical codes.
MapsInjectively ==
    \A t, u \in Positions(DIM_TYPE) :
        (IsMapped(t) /\ IsMapped(u) /\ t # u)
           => buildingTypeMap[CodeAt(DIM_TYPE, t)] # buildingTypeMap[CodeAt(DIM_TYPE, u)]

\* The codes within each dimension are distinct.
CodesDistinct ==
    \A d \in Roles : \A j, k \in 1..NumCategories(d) :
        CategoryIndex(d)[j][1] = CategoryIndex(d)[k][1] => j = k

RecordKey(r) == <<r.postalCode, r.buildingType, r.date>>

KeysDistinct(recs) ==
    \A i, j \in 1..Len(recs) : RecordKey(recs[i]) = RecordKey(recs[j]) => i = j

\* The rows of the table that belong to the source of the running call.
RowsOfSource(rows) == {row \in rows : row.source_id = store.sourceId}

\* C28: if the mapping table maps the dataset's category codes to pairwise
\* different canonical codes and the codes within each dimension are
\* distinct, no two records returned by one transform() share (postalCode,
\* buildingType, date); insertPriceRecords then stores one row per record
\* for a source that had no rows: records.length distinct rows when it has
\* sent them all.
C28_RecordKeysDistinct ==
    (MapsInjectively /\ CodesDistinct) =>
        /\ KeysDistinct(records)
        /\ Returned => KeysDistinct(outcome.result.records)
        /\ (store.pc = "insertPriceRecords" /\ RowsOfSource(store.before) = {}) =>
              /\ store.count = store.i
              /\ Cardinality(RowsOfSource(price_data)) = store.i
              /\ \A i \in 1..store.i :
                    \E row \in RowsOfSource(price_data) :
                        /\ row.postal_code = store.result.records[i].postalCode
                        /\ row.building_type = store.result.records[i].buildingType
                        /\ row.date = IsoDate(store.result.records[i].date)
        /\ store.last.kind = "stored" => store.last.recordsStored = Len(store.last.records)

\* insertPriceRecords has sent every record of several periods, areas and
\* categories for a source that had no rows.
C28_Witness ==
    /\ MapsInjectively
    /\ store.pc = "insertPriceRecords"
    /\ RowsOfSource(store.before) = {}
    /\ store.i = Len(store.result.records)
    /\ store.i >= 4
    /\ Cardinality(RowsOfSource(price_data)) = store.i

\* With a table that merges two categories, records share a key and the
\* source has fewer rows than records.
C28_WitnessMerged ==
    /\ ~MapsInjectively
    /\ store.pc = "insertPriceRecords"
    /\ RowsOfSource(store.before) = {}
    /\ store.i = Len(store.result.records)
    /\ ~KeysDistinct(store.result.records)
    /\ Cardinality(RowsOfSource(price_data)) < store.i

\* ---------------------------------------------------------------- C29
\* A storeTransformResult call is under way.
InStoreTransformResult == store.pc # "idle" /\ store.method = "storeTransformResult"

\* A step of a storeTransformResult call throws: the call ends without
\* having stored.
StepFails ==
    /\ InStoreTransformResult
    /\ store'.pc = "idle"
    /\ store'.last.kind # "stored"

\* The postal codes of the records of the running call.
CodesOfRecords ==
    {store.result.records[i].postalCode : i \in 1..Len(store.result.records)}

\* C29: storeTransformResult registers the data source and ensures every
\* record's postal code exists before it inserts any price row: no price row
\* is written before insertPriceRecords is reached, and then the source's row
\* and the row of every record's postal code exist; in every state each
\* price_data row references an existing data_source row and an existing
\* postal_code row; and when a step fails the call is over, no price row is
\* written and the source and postal code rows written earlier remain.
C29_ReferencesExist ==
    /\ [](\A row \in price_data :
             /\ \E d \in data_source : d.id = row.source_id
             /\ \E c \in postal_code : c.code = row.postal_code)
    /\ []((InStoreTransformResult /\ store.pc = "insertPriceRecords") =>
             /\ \E d \in data_source : d.id = store.sourceId /\ d.name = store.result.sourceName
             /\ \A code \in CodesOfRecords : \E c \in postal_code : c.code = code)
    /\ [][(InStoreTransformResult /\ store.pc # "insertPriceRecords")
             => price_data' = price_data]_vars
    /\ [][StepFails =>
             /\ price_data' = price_data
             /\ data_source' = data_source
             /\ postal_code' = postal_code
             /\ \E d \in data_source' : d.name = store.result.sourceName
             /\ \A code \in CodesOfRecords : \E c \in postal_code' : c.code = code
             /\ \A row \in building_type_mapping :
                   \E kept \in building_type_mapping' : kept.id = row.id]_vars

\* storeBuildingTypeMappings was refused after its first statement: the
\* call is over, with the source, the postal codes and the first mapping
\* stored and no price row.
C29_Witness ==
    /\ store.pc = "idle"
    /\ store.calls = 1
    /\ store.last.kind = "none"
    /\ Returned
    /\ Len(outcome.result.records) >= 2
    /\ data_source # {}
    /\ Cardinality(postal_code) >= 2
    /\ Cardinality(building_type_mapping) = 1
    /\ price_data = {}

\* A storeTransformResult call is inserting price rows of several postal
\* codes after an earlier call stored.
C29_WitnessStoring ==
    /\ InStoreTransformResult
    /\ store.pc = "insertPriceRecords"
    /\ store.i >= 2
    /\ store.calls >= 1
    /\ Cardinality(CodesOfRecords) >= 2
    /\ price_data # {}

\* ---------------------------------------------------------------- C30
\* The same table with other contents in the cells of the further
\* categories of its extra dimensions.
Refilled(js, fill) ==
    LET total == Prod(js.size, 1, Len(js.size))
        cells == {o \in 0..(total - 1) :
                     IF AtFirstCategories(js, o) THEN o \in DOMAIN js.value
                     ELSE fill # "missing"}
        flagged == {o \in 0..(total - 1) :
                       IF AtFirstCategories(js, o) THEN String(o) \in DOMAIN js.status
                       ELSE fill = "flagged"}
    IN [js EXCEPT
          !.value = [o \in cells |->
                        IF AtFirstCategories(js, o) THEN js.value[o]
                        ELSE IF fill = "null" THEN Null ELSE Num(3)],
          !.status = [key \in {String(o) : o \in flagged} |->
                        LET o == CHOOSE o \in flagged : String(o) = key
                        IN IF AtFirstCategories(js, o) THEN js.status[String(o)] ELSE "..."]]

\* C30: when the payload declares dimensions beyond the four recognized
\* roles (each with a category index), transform() still succeeds and reads
\* every metric at the offset where each extra dimension is at position 0
\* and the roles are at the positions of the pass; the number of triples
\* visited and the records produced do not depend on the values stored for
\* positions 1 and above of an extra dimension.
C30_ExtraDimensionsAtZero ==
    ExtraIds(jsonStat) # {} =>
        /\ pc # "failed" /\ outcome.kind # "thrown"
        /\ InLoop =>
              \A m \in Positions(DIM_METRIC) :
                 LET at == CoordsAt(jsonStat.id, jsonStat.size, ComputedOffset(yi, pi, ti, m))
                 IN /\ \A e \in ExtraIds(jsonStat) : at[e] = 0
                    /\ at[DIM_YEAR] = yi /\ at[DIM_POSTAL] = pi /\ at[DIM_TYPE] = ti
                    /\ at[DIM_METRIC] = m
        /\ pc = "loop" => PassesDone <= NumTriples
        /\ Returned =>
              /\ Len(outcome.result.records) + outcome.result.skipped = NumTriples
              /\ \A fill \in ExtraFills :
                    Decode(Refilled(jsonStat, fill), buildingTypeMappings, sourceName)
                       = <<outcome.result.records, outcome.result.skipped>>

\* A table with two extra dimensions, the first declared between the roles
\* and filled with numbers, was decoded to records of several periods.
C30_Witness ==
    /\ Returned
    /\ Cardinality(ExtraIds(jsonStat)) = 2
    /\ jsonStat.id[3] = DIM_EXTRA
    /\ jsonStat.size[3] = 2
    /\ \E o \in DOMAIN jsonStat.value :
          ~AtFirstCategories(jsonStat, o) /\ jsonStat.value[o] = Num(2)
    /\ Len(outcome.result.records) >= 2
    /\ outcome.result.skipped >= 1

\* The traversal of a table whose extra dimension is declared first is under
\* way.
C30_WitnessFirst ==
    /\ InLoop
    /\ jsonStat.id[1] = DIM_EXTRA
    /\ jsonStat.size[1] = 2
    /\ yi >= 1
    /\ Len(records) >= 1

=============================================================================
